---- MODULE Spec2Model ----
(***************************************************************************)
(* Post scheduling and delivery of bot.py: the scheduled_posts store, the  *)
(* APScheduler job store (one-shot 'date' jobs post_<id> and the interval  *)
(* job check_posts), publish_scheduled_post with its await points, the     *)
(* catch-up sweep check_pending_posts, and the startup / shutdown hooks.   *)
(*                                                                         *)
(* Time is counted in whole minutes of UTC.  The process is one asyncio    *)
(* event loop: every action below is the code that runs between two await  *)
(* points of one coroutine, so actions interleave exactly where the        *)
(* coroutines can be suspended.                                            *)
(***************************************************************************)
EXTENDS Integers, Sequences, FiniteSets, TLC

\* ---------------------------------------------------------------- bounds
MaxTime == 3
MaxPosts == 2
MaxSends == 2
MaxUsers == 3
MaxDayPosts == 4
MaxBroadcasts == 2
MaxAdds == 3

\* ------------------------------------------------------ program constants
\* get_posts_to_publish: scheduled_time <= NOW() + INTERVAL '5 minutes'
Lookahead == 5
\* process_post_time: scheduled_datetime < utcnow() + timedelta(minutes=2)
MinLead == 2
\* process_post_time: scheduled_datetime > utcnow() + timedelta(days=1)
DayMinutes == 1440

\* users.channels_limit / users.posts_per_day_limit: DEFAULT 1, DEFAULT 3
FreeChannels == 1
FreePosts == 3
\* Config.TARIFF_CHANNELS_LIMIT, Config.TARIFF_POSTS_PER_DAY
TariffChannels == 2
TariffPosts == 8
\* update_user_subscription(user_id, subscribed=True, days=30)
GrantDays == 30

\* The one channel id the model links, and the one registered user row.
ChannelIds == {"@chan"}
UserId == 1

\* The channel ids the owner can send while linking channels.
LinkChannelIds == {"@chan", "@chan2"}

\* Telegram accounts; Owner is the one that holds the conversations, and
\* whose users row has id UserId.
TelegramIds == {"tg1", "tg2"}
Owner == "tg1"

\* Concurrent get_or_create_user calls, concurrent process_channel_link
\* handlers.
CallIds == {"call1", "call2"}
HandlerIds == {"h1", "h2"}

\* Invokers of publish_scheduled_post: the one-shot job of post p is p,
\* the sweep check_pending_posts is Sweep.
Sweep == 0
PostIds == 1..MaxPosts
Invokers == {Sweep} \cup PostIds

\* A nullable column: NULL is the empty tuple, a value t is <<t>>.
NULL == <<>>
Some(t) == <<t>>

VARIABLES
    now,         \* the UTC clock, in minutes
    running,     \* the process is up (between on_startup and on_shutdown)
    posts,       \* table scheduled_posts: sequence of rows, id = index
    chan,        \* table channels: per channel id "none" | "active" | "inactive"
    jobs,        \* ids of the armed one-shot jobs post_<id>
    sweepArmed,  \* the interval job check_posts is in the job store
    sweepDue,    \* the interval job's next run time has come
    pc,          \* per invoker: where its publish_scheduled_post call is
    batch,       \* check_pending_posts: the posts still to go through
    sent,        \* per post: successful outbound sends to the channel
    lastEvent,   \* what the latest step of publish_scheduled_post did
    dueBatch,    \* posts of the running/last sweep that were past due at its read
    sweepFailed, \* posts whose delivery inside the running/last sweep failed
    rearmed,     \* posts on_startup armed a one-shot job for
    fault,       \* some store or transport operation has failed so far
    probe,       \* the latest validation of a requested due time and its verdict
    users,       \* table users: sequence of rows, id = index
    calls,       \* per get_or_create_user call: where it is, and its result
    fsm,         \* the owner's FSM context: state and data
    links,       \* per process_channel_link handler: where it is
    closing,     \* main()'s way out: where it is, the steps performed so far
    broadcasts,  \* table broadcasts: the number of rows
    update,      \* the latest message dispatched, its handler and how it ended
    jobStore,    \* the job store in full: the (id, run_date) of every 'date' job
    timing,      \* per process_post_time handler: where it is, what it read
    fanout,      \* table broadcasts, and where admin_broadcast_send is
    adminFsm,    \* per account: the state of its FSM context
    actor,       \* the account whose update the latest handler step served
    store        \* the backend; columns username and channels in full; the latest call

\* What the scheduling and delivery steps leave alone.
lateVars == <<timing, fanout, adminFsm, actor, store>>
extVars == <<closing, broadcasts, update, jobStore, lateVars>>
sideVars == <<probe, users, calls, fsm, links, extVars>>

vars == <<now, running, posts, chan, jobs, sweepArmed, sweepDue, pc, batch,
          sent, lastEvent, dueBatch, sweepFailed, rearmed, fault, sideVars>>

NoEvent == [ev |-> "none", by |-> Sweep, post |-> 0]

\* No due time has been validated yet.
NoProbe == [at |-> 0, due |-> 0, verdict |-> "none"]

\* A get_or_create_user call slot that is not in use.
NoCall == [pc |-> "idle", tg |-> Owner, result |-> "none"]

\* FSMContext after state.clear(): no state, no data.
FsmClear == [state |-> "none", user_id |-> NULL, channel_id |-> NULL,
             message_text |-> FALSE]

\* A process_channel_link handler that is not running.
NoLink == [pc |-> "idle", channel_id |-> NULL]

\* main() is polling: no shutdown step has been performed.
NotClosing == [phase |-> "polling", at |-> "none", trace |-> <<>>, raised |-> FALSE]

\* A process_post_time handler that is not running.
NoTiming == [pc |-> "idle", sched |-> 0, channel_id |-> NULL, post |-> 0]

\* No broadcast has been saved and admin_broadcast_send is not running.
NoFanout == [pc |-> "idle", sender |-> "none", kind |-> "none", todo |-> <<>>,
             sent_count |-> 0, delivered |-> 0, attempted |-> 0, id |-> 0,
             writes |-> 0, rows |-> <<>>]

\* No update has been served yet.
NoActor == [id |-> "none", turn |-> 0]

\* Database() before connect(): no backend yet, empty tables, no call made.
NoStore ==
    [backend |-> "none",
     username |-> [u \in TelegramIds |-> "absent"],
     returned |-> [tg |-> "none", passed |-> "", before |-> "absent",
                   username |-> "absent"],
     channels |-> {}, nextId |-> 1, again |-> FALSE, before |-> {}]

\* No message has been dispatched yet.
NoUpdate == [msg |-> "none", handler |-> "none", outcome |-> "none", turn |-> 0]
Event(e, k, p) == [ev |-> e, by |-> k, post |-> p]

\* ------------------------------------------------------------ the store

\* Database.add_scheduled_post: INSERT ... RETURNING id
NewPost(c, t) ==
    [user_id |-> UserId, channel_id |-> c, scheduled_time |-> t,
     is_published |-> FALSE, published_at |-> NULL]

\* A mark_post_published that sets the flag and forgets the timestamp.
MarkFlagOnly(P, p, t) ==
    [q \in DOMAIN P |->
        IF q = p THEN [P[q] EXCEPT !.is_published = TRUE] ELSE P[q]]

\* A mark_post_published whose UPDATE selects by channel instead of by id.
MarkPostsOfChannel(P, p, t) ==
    [q \in DOMAIN P |->
        IF P[q].channel_id = P[p].channel_id
        THEN [P[q] EXCEPT !.is_published = TRUE, !.published_at = Some(t)]
        ELSE P[q]]

\* Database.mark_post_published: UPDATE scheduled_posts
\*   SET is_published = TRUE, published_at = CURRENT_TIMESTAMP WHERE id = $1
MarkPostPublished(P, p, t) ==
    [q \in DOMAIN P |->
        IF q = p THEN [P[q] EXCEPT !.is_published = TRUE, !.published_at = Some(t)]
                 ELSE P[q]]

\* The SELECT without its condition sp.is_published = FALSE.
PublishQueryAnyRow(P, C, p) ==
    /\ p \in DOMAIN P
    /\ C[P[p].channel_id] # "none"

\* publish_scheduled_post's SELECT: the post joined with its user and its
\* channel row, WHERE sp.id = $1 AND sp.is_published = FALSE
PublishQuery(P, C, p) ==
    /\ p \in DOMAIN P
    /\ C[P[p].channel_id] # "none"
    /\ ~P[p].is_published

\* A WHERE clause that takes only the posts due in the coming minutes and
\* leaves out the ones whose due time has passed.
IsDueRowWindow(P, C, p, t) ==
    /\ P[p].scheduled_time >= t
    /\ P[p].scheduled_time <= t + Lookahead
    /\ ~P[p].is_published
    /\ C[P[p].channel_id] = "active"

\* A WHERE clause without the condition c.is_active = TRUE.
IsDueRowAnyChannel(P, C, p, t) ==
    /\ P[p].scheduled_time <= t + Lookahead
    /\ ~P[p].is_published

\* Database.get_posts_to_publish: the WHERE clause of the SELECT
IsDueRow(P, C, p, t) ==
    /\ P[p].scheduled_time <= t + Lookahead
    /\ ~P[p].is_published
    /\ C[P[p].channel_id] = "active"

\* A SELECT without ORDER BY: the rows come in any order.
IsUnordered(P, s) == TRUE

\* ORDER BY sp.scheduled_time
IsOrdered(P, s) ==
    \A i, j \in DOMAIN s : i < j => P[s[i]].scheduled_time <= P[s[j]].scheduled_time

\* Database.get_posts_to_publish: every result list the query can return
\* (rows with equal scheduled_time come in either order)
GetPostsToPublish(P, C, t) ==
    LET rows == {p \in DOMAIN P : IsDueRow(P, C, p, t)}
    IN  {s \in [1..Cardinality(rows) -> rows] :
            /\ \A i, j \in DOMAIN s : i # j => s[i] # s[j]
            /\ IsOrdered(P, s)}

\* What the caller of get_posts_to_publish gets: the rows of the query, or
\* the empty list when the query raises (except Exception: return []).
ScanResults(P, C, t, readOk) ==
    IF readOk THEN GetPostsToPublish(P, C, t) ELSE {<<>>}

\* A startup that arms a job for every unpublished post, due or not.
StartupJobsAll(P, t) == {p \in DOMAIN P : ~P[p].is_published}

\* on_startup: SELECT id, scheduled_time FROM scheduled_posts
\*   WHERE is_published = FALSE AND scheduled_time > NOW(), then the
\*   check scheduled_datetime > datetime.utcnow() before add_job
StartupJobs(P, t) ==
    {p \in DOMAIN P : ~P[p].is_published /\ P[p].scheduled_time > t}

\* A combine that moves a time of day that has already passed to tomorrow.
CombineRollsOver(t, m) ==
    IF m < t % DayMinutes
    THEN (t \div DayMinutes + 1) * DayMinutes + m
    ELSE (t \div DayMinutes) * DayMinutes + m

\* process_post_time: datetime.combine(today, post_time)
Combine(t, m) == (t \div DayMinutes) * DayMinutes + m

\* A check that accepts every due time that is not too far ahead.
TimeCheckNoLead(sched, t) ==
    IF sched > t + DayMinutes THEN "too_far" ELSE "ok"

\* A lead check that also turns away the due time now + 2 minutes.
TimeCheckStrict(sched, t) ==
    IF sched <= t + MinLead THEN "too_soon"
    ELSE IF sched > t + DayMinutes THEN "too_far"
    ELSE "ok"

\* process_post_time: the two range checks on scheduled_datetime
TimeCheck(sched, t) ==
    IF sched < t + MinLead THEN "too_soon"
    ELSE IF sched > t + DayMinutes THEN "too_far"
    ELSE "ok"


\* ------------------------------------------------- construction, lifecycle

\* Module level of bot.py: db = Database(), scheduler = AsyncIOScheduler(...)
\* with an empty in-memory job store, on a freshly created database.
InitStore ==
    /\ running = FALSE
    /\ posts = <<>>
    /\ jobs = {}
    /\ sweepArmed = FALSE
    /\ sweepDue = FALSE
    /\ pc = [k \in Invokers |-> "idle"]
    /\ batch = <<>>
    /\ sent = [p \in PostIds |-> 0]
    /\ lastEvent = NoEvent
    /\ dueBatch = {}
    /\ sweepFailed = {}
    /\ rearmed = {}
    /\ fault = FALSE
    /\ probe = NoProbe
    /\ users = <<>>
    /\ calls = [i \in CallIds |-> NoCall]
    /\ fsm = FsmClear
    /\ links = [h \in HandlerIds |-> NoLink]
    /\ closing = NotClosing
    /\ broadcasts = 0
    /\ update = NoUpdate
    /\ jobStore = {}
    /\ timing = [h \in HandlerIds |-> NoTiming]
    /\ fanout = NoFanout
    /\ adminFsm = [a \in TelegramIds |-> "none"]
    /\ actor = NoActor
    /\ store = NoStore

Init ==
    /\ now = 0
    /\ chan = [c \in ChannelIds |-> "none"]
    /\ InitStore

\* on_startup: scheduler.start(), add the interval job check_posts (first
\* run one interval later), then arm a one-shot job per unpublished post
\* that is still in the future.  An exception of the SELECT is caught and
\* logged: no one-shot job is armed then.
OnStartup ==
    /\ ~running
    /\ running' = TRUE
    /\ sweepArmed' = TRUE
    /\ sweepDue' = FALSE
    /\ \E readOk \in BOOLEAN :
         /\ jobs' = IF readOk THEN StartupJobs(posts, now) ELSE {}
         /\ fault' = (fault \/ ~readOk)
    /\ rearmed' = jobs'
    /\ lastEvent' = NoEvent
    /\ UNCHANGED sideVars
    /\ UNCHANGED <<now, posts, chan, pc, batch, sent, dueBatch, sweepFailed>>

\* A delivery that has sent and not yet written is_published.
CutOff == \E k \in Invokers : pc[k] = "mark"

\* on_shutdown, or the process dying: the scheduler and its in-memory job
\* store are gone, every coroutine in flight ends where it is suspended;
\* the database keeps its rows.
OnShutdown ==
    /\ running
    /\ running' = FALSE
    /\ jobs' = {}
    /\ sweepArmed' = FALSE
    /\ sweepDue' = FALSE
    /\ pc' = [k \in Invokers |-> "idle"]
    /\ batch' = <<>>
    /\ dueBatch' = {}
    /\ sweepFailed' = {}
    /\ rearmed' = {}
    /\ fault' = (fault \/ CutOff)
    /\ lastEvent' = NoEvent
    /\ UNCHANGED sideVars
    /\ UNCHANGED <<now, posts, chan, sent>>

\* A one-shot job whose run_date has come and that has not run yet.
TimerDue == \E p \in jobs : posts[p].scheduled_time <= now

\* One minute passes.  A running scheduler runs a 'date' job at its
\* run_date, so the clock does not pass an armed job that is due; the
\* interval job (minutes=1) becomes due again.
Tick ==
    /\ now < MaxTime
    /\ ~(running /\ TimerDue)
    /\ now' = now + 1
    /\ sweepDue' = (running /\ sweepArmed)
    /\ lastEvent' = NoEvent
    /\ UNCHANGED sideVars
    /\ UNCHANGED <<running, posts, chan, jobs, sweepArmed, pc, batch, sent, dueBatch, sweepFailed, rearmed, fault>>

\* -------------------------------------------------------------- channels

\* process_channel_link, the path that reaches db.add_channel:
\* INSERT ... ON CONFLICT (user_id, channel_id) DO UPDATE SET is_active = TRUE
ProcessChannelLink(c) ==
    /\ running
    /\ chan[c] # "active"
    /\ chan' = [chan EXCEPT ![c] = "active"]
    /\ lastEvent' = NoEvent
    /\ UNCHANGED sideVars
    /\ UNCHANGED <<now, running, posts, jobs, sweepArmed, sweepDue, pc, batch,
                   sent, dueBatch, sweepFailed, rearmed, fault>>

\* Removal of a channel: the row is kept with is_active = FALSE.
DeactivateChannel(c) ==
    /\ chan[c] = "active"
    /\ chan' = [chan EXCEPT ![c] = "inactive"]
    /\ lastEvent' = NoEvent
    /\ UNCHANGED sideVars
    /\ UNCHANGED <<now, running, posts, jobs, sweepArmed, sweepDue, pc, batch,
                   sent, dueBatch, sweepFailed, rearmed, fault>>

\* ----------------------------------------------------------- post creation

\* process_post_time for the entered minute of the day m, with the FSM data
\* holding channel c (chosen from the keyboard of the user's channels):
\* range checks, db.add_scheduled_post, scheduler.add_job(..., 'date',
\* run_date=scheduled_datetime, id=post_<id>, replace_existing=True).
\* A rejected time or a failed INSERT leaves store and job store as they are.
ProcessPostTime(c, m) ==
    /\ running
    /\ chan[c] # "none"
    /\ Len(posts) < MaxPosts
    /\ LET sched == Combine(now, m) IN
       \E insertOk \in BOOLEAN :
         IF TimeCheck(sched, now) = "ok" /\ insertOk
         THEN /\ posts' = Append(posts, NewPost(c, sched))
              /\ jobs' = jobs \cup {Len(posts) + 1}
              /\ fault' = fault
         ELSE /\ UNCHANGED <<posts, jobs>>
              /\ fault' = (fault \/ (TimeCheck(sched, now) = "ok" /\ ~insertOk))
    /\ lastEvent' = NoEvent
    /\ UNCHANGED sideVars
    /\ UNCHANGED <<now, running, chan, sweepArmed, sweepDue, pc, batch, sent, dueBatch, sweepFailed, rearmed>>

\* ------------------------------------------------ publish_scheduled_post

\* The post an invoker's publish_scheduled_post call is about.
CurPost(k) == IF k = Sweep THEN Head(batch) ELSE k

\* A send whose exception is swallowed on the spot, so that the statements
\* after it run as if it had returned.
AfterSendSwallowed(ok) == "mark"

\* What follows the await bot.send_message / bot.send_photo: the statements
\* after it when it returns, the except clause when it raises.
AfterSend(ok) == IF ok THEN "mark" ELSE "return"

\* A publish_scheduled_post without its except clause: the exception goes
\* to the caller.
BoundaryRaises(exc) == "raised"

\* The except Exception clause at the end of publish_scheduled_post logs
\* and falls off the end of the function: nothing is raised to the caller.
Boundary(exc) == "returned"

\* A loop that is left after its first post.
RestOfBatchBreak(b, how) == <<>>

\* check_pending_posts after its await publish_scheduled_post(post_id):
\* asyncio.sleep(0.5), then the next post of the list; an exception would
\* leave the for loop through the except clause of check_pending_posts.
RestOfBatch(b, how) == IF how = "returned" THEN Tail(b) ELSE <<>>

\* The call of invoker k ends.  A one-shot job is done; the sweep goes on
\* with the rest of its list.
Return(k, how) ==
    IF k = Sweep
    THEN /\ batch' = RestOfBatch(batch, how)
         /\ pc' = [pc EXCEPT ![k] = IF batch' = <<>> THEN "idle" ELSE "load"]
    ELSE /\ pc' = [pc EXCEPT ![k] = "idle"]
         /\ batch' = batch

\* A failure inside the sweep's call for post p is remembered for the sweep.
NoteFailure(k, p, failed) ==
    /\ sweepFailed' = IF k = Sweep /\ failed THEN sweepFailed \cup {p} ELSE sweepFailed
    /\ fault' = (fault \/ failed)

\* The scheduler runs the one-shot job of post p at its run_date and drops
\* it from the job store; the coroutine runs up to its SELECT.
FireTimer(p) ==
    /\ running
    /\ p \in jobs
    /\ posts[p].scheduled_time <= now
    /\ jobs' = jobs \ {p}
    /\ pc' = [pc EXCEPT ![p] = "load"]
    /\ lastEvent' = NoEvent
    /\ UNCHANGED sideVars
    /\ UNCHANGED <<now, running, posts, chan, sweepArmed, sweepDue, batch, sent, dueBatch, sweepFailed, rearmed, fault>>

\* The SELECT of publish_scheduled_post answers: no row (warning logged,
\* return), a row (on to the send), or an exception (caught at the end).
PublishLoadOutcome(k, readOk) ==
    /\ running
    /\ pc[k] = "load"
    /\ LET p == CurPost(k) IN
         IF readOk /\ PublishQuery(posts, chan, p)
         THEN /\ pc' = [pc EXCEPT ![k] = "send"]
              /\ batch' = batch
              /\ lastEvent' = NoEvent
              /\ NoteFailure(k, p, FALSE)
         ELSE /\ Return(k, IF readOk THEN "returned" ELSE Boundary("load"))
              /\ lastEvent' = IF readOk THEN Event("no_row", k, p) ELSE NoEvent
              /\ NoteFailure(k, p, ~readOk)
    /\ UNCHANGED sideVars
    /\ UNCHANGED <<now, running, posts, chan, jobs, sweepArmed, sweepDue, sent, dueBatch, rearmed>>

PublishLoad(k) == \E readOk \in BOOLEAN : PublishLoadOutcome(k, readOk)

\* await bot.send_message(chat_id=channel_ident, ...) returns or raises.
PublishSendOutcome(k, ok) ==
    /\ running
    /\ pc[k] = "send"
    /\ LET p == CurPost(k) IN
         /\ ok => sent[p] < MaxSends
         /\ sent' = IF ok THEN [sent EXCEPT ![p] = @ + 1] ELSE sent
         /\ IF AfterSend(ok) = "mark"
            THEN /\ pc' = [pc EXCEPT ![k] = "mark"]
                 /\ batch' = batch
            ELSE Return(k, Boundary("send"))
         /\ lastEvent' = IF ok THEN NoEvent ELSE Event("send_failed", k, p)
         /\ NoteFailure(k, p, ~ok)
    /\ UNCHANGED sideVars
    /\ UNCHANGED <<now, running, posts, chan, jobs, sweepArmed, sweepDue,
                   dueBatch, rearmed>>

PublishSend(k) == \E ok \in BOOLEAN : PublishSendOutcome(k, ok)

\* await db.mark_post_published(post_id): the UPDATE is done, or it raised
\* inside mark_post_published, which logs and returns False; the caller
\* ignores the result and goes on to notify_user.
PublishMarkOutcome(k, ok) ==
    /\ running
    /\ pc[k] = "mark"
    /\ LET p == CurPost(k) IN
         /\ posts' = IF ok THEN MarkPostPublished(posts, p, now) ELSE posts
         /\ lastEvent' = NoEvent
         /\ NoteFailure(k, p, ~ok)
    /\ pc' = [pc EXCEPT ![k] = "notify"]
    /\ UNCHANGED sideVars
    /\ UNCHANGED <<now, running, chan, jobs, sweepArmed, sweepDue, batch, sent, dueBatch, rearmed>>

PublishMark(k) == \E ok \in BOOLEAN : PublishMarkOutcome(k, ok)

\* A failed notification that takes the mark back.
NotifyRollsBack(P, p, ok) ==
    IF ok THEN P
    ELSE [q \in DOMAIN P |->
            IF q = p THEN [P[q] EXCEPT !.is_published = FALSE, !.published_at = NULL]
                     ELSE P[q]]

\* The store after await notify_user(...): publish_scheduled_post ignores
\* the result of notify_user and has no statement after it.
AfterNotify(P, p, ok) == P

\* await notify_user(telegram_id, ...): the message to the owner is
\* delivered, or the failure is logged inside notify_user, which returns
\* False; then publish_scheduled_post ends.
PublishNotify(k) ==
    /\ running
    /\ pc[k] = "notify"
    /\ \E ok \in BOOLEAN :
         /\ lastEvent' = Event(IF ok THEN "notified" ELSE "notify_failed", k, CurPost(k))
         /\ posts' = AfterNotify(posts, CurPost(k), ok)
    /\ Return(k, "returned")
    /\ UNCHANGED sideVars
    /\ UNCHANGED <<now, running, chan, jobs, sweepArmed, sweepDue, sent,
                   dueBatch, sweepFailed, rearmed, fault>>

\* ------------------------------------------------------ check_pending_posts

\* The interval job runs check_pending_posts (one instance at a time):
\* posts = await db.get_posts_to_publish(), which returns [] when the
\* query raises.
SweepStartOutcome(readOk) ==
    /\ running
    /\ sweepArmed
    /\ sweepDue
    /\ pc[Sweep] = "idle"
    /\ sweepDue' = FALSE
    /\   /\ batch' \in ScanResults(posts, chan, now, readOk)
         /\ fault' = (fault \/ ~readOk)
         /\ lastEvent' = IF readOk THEN NoEvent ELSE Event("scan_failed", Sweep, 0)
    /\ pc' = [pc EXCEPT ![Sweep] = IF batch' = <<>> THEN "idle" ELSE "load"]
    /\ dueBatch' = {batch'[i] : i \in DOMAIN batch'} \cap
                   {p \in DOMAIN posts : posts[p].scheduled_time <= now}
    /\ sweepFailed' = {}
    /\ UNCHANGED sideVars
    /\ UNCHANGED <<now, running, posts, chan, jobs, sweepArmed, sent,
                   rearmed>>

SweepStart == \E readOk \in BOOLEAN : SweepStartOutcome(readOk)

\* ------------------------------------------------------------ specification

Next ==
    \/ OnStartup
    \/ OnShutdown
    \/ Tick
    \/ \E c \in ChannelIds : ProcessChannelLink(c)
    \/ \E c \in ChannelIds : DeactivateChannel(c)
    \/ \E c \in ChannelIds, m \in 0..MaxTime : ProcessPostTime(c, m)
    \/ \E p \in PostIds : FireTimer(p)
    \/ \E k \in Invokers : PublishLoad(k)
    \/ \E k \in Invokers : PublishSend(k)
    \/ \E k \in Invokers : PublishMark(k)
    \/ \E k \in Invokers : PublishNotify(k)
    \/ SweepStart

Spec == Init /\ [][Next]_vars

TypeOK ==
    /\ now \in 0..MaxTime
    /\ running \in BOOLEAN
    /\ jobs \subseteq DOMAIN posts
    /\ \A k \in Invokers : pc[k] \in {"idle", "load", "send", "mark", "notify"}
    /\ (pc[Sweep] # "idle") <=> (batch # <<>>)
    /\ \A p \in PostIds : sent[p] \in 0..MaxSends

\* ------------------------------------------------- retry after a failure

\* A minute passes beyond the last minute the clock counts: the clock
\* stays, the interval job becomes due again.
TickLate ==
    /\ now = MaxTime
    /\ running
    /\ ~TimerDue
    /\ sweepArmed
    /\ ~sweepDue
    /\ sweepDue' = TRUE
    /\ lastEvent' = NoEvent
    /\ UNCHANGED sideVars
    /\ UNCHANGED <<now, running, posts, chan, jobs, sweepArmed, pc, batch, sent,
                   dueBatch, sweepFailed, rearmed, fault>>

\* The bot keeps running, the channel stays linked and the store answers;
\* the outbound send may fail.
LiveNext ==
    \/ OnStartup
    \/ Tick
    \/ TickLate
    \/ \E c \in ChannelIds : ProcessChannelLink(c)
    \/ \E c \in ChannelIds, m \in 0..MaxTime : ProcessPostTime(c, m)
    \/ \E p \in PostIds : FireTimer(p)
    \/ \E k \in Invokers : PublishLoadOutcome(k, TRUE)
    \/ \E k \in Invokers : PublishSend(k)
    \/ \E k \in Invokers : PublishMarkOutcome(k, TRUE)
    \/ \E k \in Invokers : PublishNotify(k)
    \/ SweepStartOutcome(TRUE)

\* The clock goes on, the scheduler runs the jobs that are due, the event
\* loop resumes every suspended coroutine, and a send that is tried again
\* and again succeeds at some time.
LiveFairness ==
    /\ WF_vars(Tick)
    /\ WF_vars(TickLate)
    /\ WF_vars(SweepStartOutcome(TRUE))
    /\ \A p \in PostIds : WF_vars(FireTimer(p))
    /\ \A k \in Invokers :
          /\ WF_vars(PublishLoadOutcome(k, TRUE))
          /\ WF_vars(PublishSend(k))
          /\ SF_vars(PublishSendOutcome(k, TRUE))
          /\ WF_vars(PublishMarkOutcome(k, TRUE))
          /\ WF_vars(PublishNotify(k))

LiveSpec == Init /\ [][LiveNext]_vars /\ LiveFairness

\* ------------------------------------------- the validation of a due time

Hour == DayMinutes \div 24

\* The minutes of a day at which a time is entered, and for which: the
\* first and the last ones of the day.
DayEdge == (0..MaxTime) \cup ((DayMinutes - MaxTime - 1)..(DayMinutes - 1))

\* Requested due times, as minutes from now.
Leads ==
    {-1, 0, MinLead - 1, MinLead, MinLead + 1, DayMinutes - Hour,
     DayMinutes - 1, DayMinutes, DayMinutes + 1, DayMinutes + Hour}

\* process_post_time's two range checks, applied to a request to create a
\* post d minutes from now.
ValidateDueTime(d) ==
    /\ running
    /\ probe' = [at |-> now, due |-> now + d, verdict |-> TimeCheck(now + d, now)]
    /\ UNCHANGED <<now, running, posts, chan, jobs, sweepArmed, sweepDue, pc,
                   batch, sent, lastEvent, dueBatch, sweepFailed, rearmed, fault,
                   users, calls, fsm, links, extVars>>

\* The bot is started at some minute of the day.
TimeInit ==
    /\ now \in DayEdge
    /\ chan = [c \in ChannelIds |-> "none"]
    /\ InitStore

TimeNext ==
    \/ OnStartup
    \/ \E c \in ChannelIds : ProcessChannelLink(c)
    \/ \E c \in ChannelIds, m \in DayEdge : ProcessPostTime(c, m)
    \/ \E d \in Leads : ValidateDueTime(d)

TimeSpec == TimeInit /\ [][TimeNext]_vars

\* process_post_time up to its two range checks, for the entered minute of
\* the day m: strptime(text, "%H:%M"), datetime.combine(today, post_time),
\* then the verdict on the resulting due time.
EnterTime(m) ==
    /\ running
    /\ probe' = [at |-> now, due |-> Combine(now, m),
                 verdict |-> TimeCheck(Combine(now, m), now)]
    /\ UNCHANGED <<now, running, posts, chan, jobs, sweepArmed, sweepDue, pc,
                   batch, sent, lastEvent, dueBatch, sweepFailed, rearmed, fault,
                   users, calls, fsm, links, extVars>>

\* Times of day entered in the first and the last minutes of a day.
DayNext ==
    \/ OnStartup
    \/ \E c \in ChannelIds : ProcessChannelLink(c)
    \/ \E m \in DayEdge : EnterTime(m)
    \/ \E c \in ChannelIds, m \in DayEdge : ProcessPostTime(c, m)

DaySpec == TimeInit /\ [][DayNext]_vars

\* ------------------------------------------------------------------ users

deliveryVars == <<posts, jobs, sweepArmed, sweepDue, pc, batch, sent, lastEvent,
                  dueBatch, sweepFailed, rearmed, fault>>

\* INSERT INTO users (telegram_id, username, full_name): the other columns
\* take their defaults
NewUser(u) ==
    [telegram_id |-> u, subscribed |-> FALSE, subscription_until |-> NULL,
     channels_limit |-> FreeChannels, posts_per_day_limit |-> FreePosts]

\* SELECT * FROM users WHERE telegram_id = $1: the ids of the rows found
FindUser(U, u) == {i \in DOMAIN U : U[i].telegram_id = u}

\* An INSERT into a users table whose telegram_id is not UNIQUE.
InsertUserNoUnique(U, u) == Append(U, NewUser(u))

\* The INSERT of get_or_create_user on telegram_id BIGINT UNIQUE NOT NULL:
\* a second row for the same telegram_id is refused (the exception is
\* caught in get_or_create_user) and the table stays as it is.
InsertUser(U, u) ==
    IF FindUser(U, u) # {} THEN U ELSE Append(U, NewUser(u))

\* get_or_create_user run without interruption.
GetOrCreateUser(U, u) ==
    IF FindUser(U, u) # {} THEN U ELSE InsertUser(U, u)

\* A grant that raises the flag and the expiry and leaves the limits.
UpdateFlagOnly(U, u, t) ==
    [i \in DOMAIN U |->
        IF U[i].telegram_id = u
        THEN [U[i] EXCEPT !.subscribed = TRUE,
                          !.subscription_until = Some(t + GrantDays * DayMinutes)]
        ELSE U[i]]

\* Database.update_user_subscription: UPDATE users SET subscribed = $1,
\*   subscription_until = $2, channels_limit = $3, posts_per_day_limit = $4
\*   WHERE telegram_id = $5
UpdateUserSubscription(U, u, t) ==
    [i \in DOMAIN U |->
        IF U[i].telegram_id = u
        THEN [U[i] EXCEPT !.subscribed = TRUE,
                          !.subscription_until = Some(t + GrantDays * DayMinutes),
                          !.channels_limit = TariffChannels,
                          !.posts_per_day_limit = TariffPosts]
        ELSE U[i]]

\* get_or_create_user(u), up to the answer of its SELECT: the row is found
\* and returned, or it is not found and the INSERT is next, or the SELECT
\* raises and the call returns None.
GocSelect(i, u) ==
    /\ running
    /\ calls[i].pc = "idle"
    /\ \E readOk \in BOOLEAN :
         calls' = [calls EXCEPT ![i] =
                     IF ~readOk THEN [pc |-> "idle", tg |-> u, result |-> "failed"]
                     ELSE IF FindUser(users, u) # {}
                          THEN [pc |-> "idle", tg |-> u, result |-> "row"]
                          ELSE [pc |-> "insert", tg |-> u, result |-> "none"]]
    /\ UNCHANGED <<now, running, chan, users, fsm, links, probe>>
    /\ UNCHANGED deliveryVars
    /\ UNCHANGED extVars

\* The INSERT ... RETURNING * of the call: the new row is returned, or the
\* INSERT raises (a row with this telegram_id is there by now, or the store
\* fails) and the call returns None.
GocInsert(i) ==
    /\ running
    /\ calls[i].pc = "insert"
    /\ Len(users) < MaxUsers
    /\ \E writeOk \in BOOLEAN :
         LET u == calls[i].tg
             U == IF writeOk THEN InsertUser(users, u) ELSE users
         IN  /\ users' = U
             /\ calls' = [calls EXCEPT ![i] =
                            [pc |-> "idle", tg |-> u,
                             result |-> IF ~writeOk THEN "failed"
                                        ELSE IF U = users THEN "conflict"
                                        ELSE "row"]]
    /\ UNCHANGED <<now, running, chan, fsm, links, probe>>
    /\ UNCHANGED deliveryVars
    /\ UNCHANGED extVars

\* admin_add_subscription_process for the entered id u: get_or_create_user,
\* nothing more for a user who is subscribed already, else
\* update_user_subscription(u, subscribed=True, days=30), which can fail.
AdminAddSubscriptionProcess(u) ==
    /\ running
    /\ Len(users) < MaxUsers
    /\ LET U == GetOrCreateUser(users, u) IN
       \E ok \in BOOLEAN :
         users' = IF ok /\ \A i \in FindUser(U, u) : ~U[i].subscribed
                  THEN UpdateUserSubscription(U, u, now)
                  ELSE U
    /\ UNCHANGED <<now, running, chan, calls, fsm, links, probe>>
    /\ UNCHANGED deliveryVars
    /\ UNCHANGED extVars

UserNext ==
    \/ OnStartup
    \/ Tick
    \/ \E i \in CallIds, u \in TelegramIds : GocSelect(i, u)
    \/ \E i \in CallIds : GocInsert(i)
    \/ \E u \in TelegramIds : AdminAddSubscriptionProcess(u)

UserSpec == Init /\ [][UserNext]_vars

\* ------------------------------------------------------- linking channels

\* The users row of telegram account u (there is one, see GetOrCreateUser).
UserRow(U, u) == U[CHOOSE i \in FindUser(U, u) : TRUE]

\* get_user_stats: SELECT COUNT(*) FROM channels
\*   WHERE user_id = $1 AND is_active = TRUE
ChannelsCount(C) == Cardinality({c \in DOMAIN C : C[c] = "active"})

\* handle_add_channel ("➕ Добавить канал", whatever the FSM state):
\* get_user_stats (which registers the user if need be), the check
\* channels_count >= channels_limit, then
\* state.set_state(AddChannelStates.waiting_for_channel_link).
HandleAddChannel ==
    /\ running
    /\ Len(users) < MaxUsers
    /\ \E statsOk \in BOOLEAN :
         LET U == GetOrCreateUser(users, Owner) IN
         /\ users' = IF statsOk THEN U ELSE users
         /\ fsm' = IF statsOk /\ ChannelsCount(chan) < UserRow(U, Owner).channels_limit
                   THEN [fsm EXCEPT !.state = "waiting_for_channel_link"]
                   ELSE fsm
    /\ UNCHANGED <<now, running, chan, calls, links, probe>>
    /\ UNCHANGED deliveryVars
    /\ UNCHANGED extVars

\* process_channel_link for a message naming channel c, dispatched while
\* the state is waiting_for_channel_link, up to its first await: the user
\* row is read (on a failure: answer, state.clear(), return).
ProcessChannelLinkBegin(h, c) ==
    /\ running
    /\ fsm.state = "waiting_for_channel_link"
    /\ links[h].pc = "idle"
    /\ \E userOk \in BOOLEAN :
         IF userOk /\ FindUser(users, Owner) # {}
         THEN /\ links' = [links EXCEPT ![h] = [pc |-> "check_admin", channel_id |-> Some(c)]]
              /\ fsm' = fsm
         ELSE /\ links' = links
              /\ fsm' = FsmClear
    /\ UNCHANGED <<now, running, chan, users, calls, probe>>
    /\ UNCHANGED deliveryVars
    /\ UNCHANGED extVars

\* The rest of that handler: check_bot_admin (no rights: answer,
\* state.clear(), return), db.add_channel (INSERT ... ON CONFLICT DO UPDATE
\* SET is_active = TRUE, or False on a failure), state.clear().
ProcessChannelLinkEnd(h) ==
    /\ running
    /\ links[h].pc = "check_admin"
    /\ \E isAdmin, addOk \in BOOLEAN :
         chan' = IF isAdmin /\ addOk
                 THEN [chan EXCEPT ![links[h].channel_id[1]] = "active"]
                 ELSE chan
    /\ fsm' = FsmClear
    /\ links' = [links EXCEPT ![h] = NoLink]
    /\ UNCHANGED <<now, running, users, calls, probe>>
    /\ UNCHANGED deliveryVars
    /\ UNCHANGED extVars

LinkInit ==
    /\ now = 0
    /\ chan = [c \in LinkChannelIds |-> "none"]
    /\ InitStore

LinkNext ==
    \/ OnStartup
    \/ HandleAddChannel
    \/ \E h \in HandlerIds, c \in LinkChannelIds : ProcessChannelLinkBegin(h, c)
    \/ \E h \in HandlerIds : ProcessChannelLinkEnd(h)
    \/ AdminAddSubscriptionProcess(Owner)

LinkSpec == LinkInit /\ [][LinkNext]_vars

\* ------------------------------------------------------- the daily limit

\* DATE(scheduled_time), as a day number
Day(t) == t \div DayMinutes

\* get_user_stats: SELECT COUNT(*) FROM scheduled_posts WHERE user_id = $1
\*   AND DATE(scheduled_time) = CURRENT_DATE AND is_published = FALSE
PostsToday(P, uid, t) ==
    Cardinality({p \in DOMAIN P :
                    /\ P[p].user_id = uid
                    /\ Day(P[p].scheduled_time) = Day(t)
                    /\ ~P[p].is_published})

\* handle_schedule_post ("🕐 Запланировать пост", whatever the FSM state):
\* get_user_stats, the check posts_today >= posts_limit, get_user_channels
\* (no active channel: answer and return), then
\* state.set_state(SchedulePostStates.waiting_for_channel) and
\* state.update_data(user_id=...).
HandleSchedulePost ==
    /\ running
    /\ Len(users) < MaxUsers
    /\ \E statsOk \in BOOLEAN :
         LET U == GetOrCreateUser(users, Owner) IN
         /\ users' = IF statsOk THEN U ELSE users
         /\ fsm' = IF /\ statsOk
                      /\ PostsToday(posts, UserId, now) < UserRow(U, Owner).posts_per_day_limit
                      /\ ChannelsCount(chan) > 0
                   THEN [fsm EXCEPT !.state = "waiting_for_channel",
                                    !.user_id = Some(UserId)]
                   ELSE fsm
    /\ UNCHANGED <<now, running, chan, calls, links, probe>>
    /\ UNCHANGED deliveryVars
    /\ UNCHANGED extVars

\* callback_select_channel (a button select_channel_<c> of a keyboard that
\* handle_schedule_post has shown; the handler has no state filter):
\* state.update_data(channel_id=c), set_state(waiting_for_text).
CallbackSelectChannel(c) ==
    /\ running
    /\ chan[c] = "active"
    /\ fsm' = [fsm EXCEPT !.state = "waiting_for_text", !.channel_id = Some(c)]
    /\ UNCHANGED <<now, running, chan, users, calls, links, probe>>
    /\ UNCHANGED deliveryVars
    /\ UNCHANGED extVars

\* process_post_text for a message with text: update_data(message_text=...),
\* set_state(waiting_for_time).
ProcessPostText ==
    /\ running
    /\ fsm.state = "waiting_for_text"
    /\ fsm' = [fsm EXCEPT !.state = "waiting_for_time", !.message_text = TRUE]
    /\ UNCHANGED <<now, running, chan, users, calls, links, probe>>
    /\ UNCHANGED deliveryVars
    /\ UNCHANGED extVars

\* process_post_time inside the conversation, for the entered minute m: a
\* time outside the window is answered and the state kept; incomplete FSM
\* data clears the state; else add_scheduled_post, scheduler.add_job and
\* state.clear() (a failed INSERT clears the state too).
ProcessPostTimeFsm(m) ==
    /\ running
    /\ fsm.state = "waiting_for_time"
    /\ Len(posts) < MaxDayPosts
    /\ LET sched == Combine(now, m) IN
       \E insertOk \in BOOLEAN :
         IF TimeCheck(sched, now) # "ok"
         THEN UNCHANGED <<posts, jobs, fsm>>
         ELSE IF fsm.user_id = NULL \/ fsm.channel_id = NULL \/ ~fsm.message_text
         THEN /\ fsm' = FsmClear
              /\ UNCHANGED <<posts, jobs>>
         ELSE /\ fsm' = FsmClear
              /\ posts' = IF insertOk
                          THEN Append(posts, NewPost(fsm.channel_id[1], sched))
                          ELSE posts
              /\ jobs' = IF insertOk THEN jobs \cup {Len(posts) + 1} ELSE jobs
    /\ UNCHANGED <<now, running, chan, users, calls, links, probe, sweepArmed,
                   sweepDue, pc, batch, sent, lastEvent, dueBatch, sweepFailed,
                   rearmed, fault, extVars>>

\* The one-shot job of post p runs publish_scheduled_post(p) to its end
\* with every step succeeding: the post, if still unpublished, is sent and
\* marked.
TimerPublishes(p) ==
    /\ running
    /\ p \in jobs
    /\ posts[p].scheduled_time <= now
    /\ jobs' = jobs \ {p}
    /\ posts' = IF PublishQuery(posts, chan, p)
                THEN MarkPostPublished(posts, p, now)
                ELSE posts
    /\ UNCHANGED <<now, running, chan, users, calls, fsm, links, probe, sweepArmed,
                   sweepDue, pc, batch, sent, lastEvent, dueBatch, sweepFailed,
                   rearmed, fault, extVars>>

\* check_pending_posts runs to its end with every step succeeding: every
\* row of get_posts_to_publish is sent and marked.
SweepPublishes ==
    /\ running
    /\ sweepArmed
    /\ sweepDue
    /\ sweepDue' = FALSE
    /\ posts' = [q \in DOMAIN posts |->
                   IF IsDueRow(posts, chan, q, now)
                   THEN MarkPostPublished(posts, q, now)[q]
                   ELSE posts[q]]
    /\ UNCHANGED <<now, running, chan, users, calls, fsm, links, probe, jobs,
                   sweepArmed, pc, batch, sent, lastEvent, dueBatch, sweepFailed,
                   rearmed, fault, extVars>>

QuotaNext ==
    \/ OnStartup
    \/ Tick
    \/ \E c \in ChannelIds : ProcessChannelLink(c)
    \/ HandleSchedulePost
    \/ \E c \in ChannelIds : CallbackSelectChannel(c)
    \/ ProcessPostText
    \/ \E m \in 0..MaxTime : ProcessPostTimeFsm(m)
    \/ \E p \in 1..MaxDayPosts : TimerPublishes(p)
    \/ SweepPublishes

QuotaSpec == Init /\ [][QuotaNext]_vars

\* The scheduling conversation next to the linking and the removal of
\* channels: the channel of the FSM data is the one chosen from the
\* keyboard, whatever has happened to it since.
PickNext ==
    \/ OnStartup
    \/ \E c \in ChannelIds : ProcessChannelLink(c)
    \/ \E c \in ChannelIds : DeactivateChannel(c)
    \/ HandleSchedulePost
    \/ \E c \in ChannelIds : CallbackSelectChannel(c)
    \/ ProcessPostText
    \/ \E m \in 0..MaxTime : ProcessPostTimeFsm(m)

PickSpec == Init /\ [][PickNext]_vars

\* --------------------------------------- time messages handled interleaved

\* No process_post_time handler is between its first and its last await.
NoTimeHandler == \A h \in HandlerIds : timing[h].pc = "idle"

\* process_post_time for a message with the minute of the day m, dispatched
\* while the state is waiting_for_time, up to its first await on the
\* store: the range checks (a time outside the window is answered, the
\* state kept), data = state.get_data() (incomplete data: answer,
\* state.clear(), return).
ProcessPostTimeBegin(h, m) ==
    /\ running
    /\ fsm.state = "waiting_for_time"
    /\ timing[h].pc = "idle"
    /\ LET sched == Combine(now, m) IN
         IF TimeCheck(sched, now) # "ok"
         THEN UNCHANGED <<timing, fsm>>
         ELSE IF fsm.user_id = NULL \/ fsm.channel_id = NULL \/ ~fsm.message_text
         THEN /\ fsm' = FsmClear
              /\ timing' = timing
         ELSE /\ timing' = [timing EXCEPT ![h] =
                              [pc |-> "insert", sched |-> sched,
                               channel_id |-> fsm.channel_id, post |-> 0]]
              /\ fsm' = fsm
    /\ UNCHANGED <<now, running, chan, users, calls, links, probe>>
    /\ UNCHANGED deliveryVars
    /\ UNCHANGED <<closing, broadcasts, update, jobStore, fanout, adminFsm, actor, store>>

\* await db.add_scheduled_post(...) with the data read before, then, for
\* a post id, scheduler.add_job(..., id=post_<id>, replace_existing=True).
ProcessPostTimeInsert(h) ==
    /\ running
    /\ timing[h].pc = "insert"
    /\ Len(posts) < MaxPosts
    /\ \E insertOk \in BOOLEAN :
         /\ posts' = IF insertOk
                     THEN Append(posts, NewPost(timing[h].channel_id[1], timing[h].sched))
                     ELSE posts
         /\ jobs' = IF insertOk THEN jobs \cup {Len(posts) + 1} ELSE jobs
         /\ timing' = [timing EXCEPT ![h].pc = "answer",
                                     ![h].post = IF insertOk THEN Len(posts) + 1 ELSE 0]
    /\ UNCHANGED <<now, running, chan, users, calls, fsm, links, probe, sweepArmed,
                   sweepDue, pc, batch, sent, lastEvent, dueBatch, sweepFailed,
                   rearmed, fault>>
    /\ UNCHANGED <<closing, broadcasts, update, jobStore, fanout, adminFsm, actor, store>>

\* The end of that handler: await message.answer(...), state.clear().
ProcessPostTimeEnd(h) ==
    /\ running
    /\ timing[h].pc = "answer"
    /\ fsm' = FsmClear
    /\ timing' = [timing EXCEPT ![h] = NoTiming]
    /\ UNCHANGED <<now, running, chan, users, calls, links, probe>>
    /\ UNCHANGED deliveryVars
    /\ UNCHANGED <<closing, broadcasts, update, jobStore, fanout, adminFsm, actor, store>>

\* One scheduling conversation at a time: the steps that lead a
\* conversation to the waiting-for-time state are taken while no time
\* message is being handled, so that the handlers in flight belong to the
\* conversation the FSM context is in.
RaceNext ==
    \/ OnStartup
    \/ \E c \in ChannelIds : ProcessChannelLink(c)
    \/ NoTimeHandler /\ HandleSchedulePost
    \/ NoTimeHandler /\ \E c \in ChannelIds : CallbackSelectChannel(c)
    \/ NoTimeHandler /\ ProcessPostText
    \/ \E h \in HandlerIds, m \in 0..MaxTime : ProcessPostTimeBegin(h, m)
    \/ \E h \in HandlerIds : ProcessPostTimeInsert(h)
    \/ \E h \in HandlerIds : ProcessPostTimeEnd(h)

RaceSpec == Init /\ [][RaceNext]_vars

\* ------------------------------------------------------- the job store

\* What arming and running the one-shot jobs leaves alone.
chatVars == <<probe, users, calls, fsm, links, closing, broadcasts, update,
              lateVars>>
sweepVars == <<sweepDue, pc, batch, sent, lastEvent, dueBatch, sweepFailed,
               rearmed, fault>>

\* The ids of the jobs in the store.
JobIds(J) == {j.id : j \in J}

\* An add_job that arms the job a minute after the time it is given.
AddJobMinuteLate(J, id, t) ==
    {j \in J : j.id # id} \cup {[id |-> id, run_date |-> t + 1]}

\* scheduler.add_job(publish_scheduled_post, 'date', run_date=t,
\*   args=[id], id=post_<id>, replace_existing=True)
AddJob(J, id, t) ==
    {j \in J : j.id # id} \cup {[id |-> id, run_date |-> t]}

\* on_startup's loop over the rows of its SELECT: one add_job per row.
RECURSIVE AddJobs(_, _, _)
AddJobs(J, P, ids) ==
    IF ids = {} THEN J
    ELSE LET p == CHOOSE q \in ids : TRUE
         IN  AddJobs(AddJob(J, p, P[p].scheduled_time), P, ids \ {p})

\* on_startup, with the job store in full.
StartScheduler ==
    /\ ~running
    /\ running' = TRUE
    /\ sweepArmed' = TRUE
    /\ \E readOk \in BOOLEAN :
         jobStore' = IF readOk THEN AddJobs(jobStore, posts, StartupJobs(posts, now))
                     ELSE jobStore
    /\ jobs' = JobIds(jobStore')
    /\ UNCHANGED <<now, posts, chan>>
    /\ UNCHANGED sweepVars
    /\ UNCHANGED chatVars

\* scheduler.shutdown(): the scheduler stops, its memory job store is
\* emptied.
StopScheduler ==
    /\ running
    /\ running' = FALSE
    /\ sweepArmed' = FALSE
    /\ jobStore' = {}
    /\ jobs' = {}
    /\ UNCHANGED <<now, posts, chan>>
    /\ UNCHANGED sweepVars
    /\ UNCHANGED chatVars

\* process_post_time's path to scheduler.add_job, with the job store in
\* full: the post is stored and its job armed at scheduled_datetime.
CreatePost(c, m) ==
    /\ running
    /\ chan[c] # "none"
    /\ Len(posts) < MaxPosts
    /\ TimeCheck(Combine(now, m), now) = "ok"
    /\ posts' = Append(posts, NewPost(c, Combine(now, m)))
    /\ jobStore' = AddJob(jobStore, Len(posts) + 1, Combine(now, m))
    /\ jobs' = JobIds(jobStore')
    /\ UNCHANGED <<now, running, chan, sweepArmed>>
    /\ UNCHANGED sweepVars
    /\ UNCHANGED chatVars

\* The scheduler runs a one-shot job at its run_date and removes it; the
\* call publishes the post if every step of it succeeds.
RunJob(j) ==
    /\ running
    /\ j \in jobStore
    /\ j.run_date <= now
    /\ jobStore' = jobStore \ {j}
    /\ jobs' = JobIds(jobStore')
    /\ \E ok \in BOOLEAN :
         posts' = IF ok /\ PublishQuery(posts, chan, j.id)
                  THEN MarkPostPublished(posts, j.id, now)
                  ELSE posts
    /\ UNCHANGED <<now, running, chan, sweepArmed>>
    /\ UNCHANGED sweepVars
    /\ UNCHANGED chatVars

JobNext ==
    \/ StartScheduler
    \/ StopScheduler
    \/ Tick
    \/ \E c \in ChannelIds : ProcessChannelLink(c)
    \/ \E c \in ChannelIds, m \in 0..MaxTime : CreatePost(c, m)
    \/ \E p \in PostIds, t \in 0..(MaxTime + 1) : RunJob([id |-> p, run_date |-> t])

JobSpec == Init /\ [][JobNext]_vars

\* ------------------------------------------------- what the scan returns

\* Posts for the first and the last minutes of the day, published by their
\* jobs and by the sweep, on a channel that is linked and unlinked.
ScanNext ==
    \/ OnStartup
    \/ Tick
    \/ \E c \in ChannelIds : ProcessChannelLink(c)
    \/ \E c \in ChannelIds : DeactivateChannel(c)
    \/ \E c \in ChannelIds, m \in DayEdge : ProcessPostTime(c, m)
    \/ \E p \in PostIds : TimerPublishes(p)
    \/ SweepPublishes

ScanSpec == TimeInit /\ [][ScanNext]_vars

\* ------------------------------------------------------- the conversations

\* The account that holds the conversations here is the owner of the
\* channel and the administrator (message.from_user.id == Config.ADMIN_ID).
\* The messages it sends: the command /cancel, a channel username, plain
\* words, a time of day HH:MM (minute says which), a numeric Telegram id.
Messages ==
    {[text |-> t, minute |-> 0] : t \in {"/cancel", "@chan", "words", "4711"}}
        \cup {[text |-> "HH:MM", minute |-> m] : m \in 0..MaxTime}

\* The account the numeric id names.
Grantee == "tg2"

\* The message handlers of the router in the order of their registration,
\* each with its state filter and its text filter ("any": no such filter).
Router ==
    << [name |-> "cmd_start", state |-> "any", text |-> "/start"],
       [name |-> "cmd_help", state |-> "any", text |-> "/help"],
       [name |-> "cmd_admin", state |-> "any", text |-> "/admin"],
       [name |-> "cmd_health", state |-> "any", text |-> "/health"],
       [name |-> "handle_stats", state |-> "any", text |-> "stats button"],
       [name |-> "handle_channels", state |-> "any", text |-> "channels button"],
       [name |-> "handle_add_channel", state |-> "any", text |-> "add channel button"],
       [name |-> "handle_schedule_post", state |-> "any", text |-> "schedule button"],
       [name |-> "handle_scheduled_posts", state |-> "any", text |-> "posts button"],
       [name |-> "handle_buy_subscription", state |-> "any", text |-> "buy button"],
       [name |-> "handle_admin_panel", state |-> "any", text |-> "admin button"],
       [name |-> "process_channel_link", state |-> "waiting_for_channel_link", text |-> "any"],
       [name |-> "process_post_text", state |-> "waiting_for_text", text |-> "any"],
       [name |-> "process_post_time", state |-> "waiting_for_time", text |-> "any"],
       [name |-> "admin_broadcast_send", state |-> "waiting_for_message", text |-> "any"],
       [name |-> "admin_add_subscription_process", state |-> "waiting_for_user_id", text |-> "any"],
       [name |-> "cmd_cancel", state |-> "any", text |-> "/cancel"] >>

\* The filters of handler h pass for a message with this text in state st.
Matches(h, st, text) ==
    /\ h.state = "any" \/ h.state = st
    /\ h.text = "any" \/ h.text = text

\* The handler a message is given to: the first registered one whose
\* filters pass, or none.
Route(st, text) ==
    LET hits == {i \in DOMAIN Router : Matches(Router[i], st, text)}
    IN  IF hits = {} THEN "unhandled"
        ELSE Router[CHOOSE i \in hits : \A j \in hits : i <= j].name

\* datetime.strptime(time_str, "%H:%M"): the minute of the day, or
\* ValueError (NULL) for a text that is not a time.
ParseTime(msg) == IF msg.text = "HH:MM" THEN Some(msg.minute) ELSE NULL

\* int(message.text): the account named, or ValueError (NULL).
ParseId(msg) == IF msg.text = "4711" THEN Some(Grantee) ELSE NULL

\* The handler of this message has ended with outcome o.
Handled(msg, h, o) ==
    update' = [msg |-> msg.text, handler |-> h, outcome |-> o,
               turn |-> 1 - update.turn]

\* A job store in which a job is added whatever the INSERT returned.
ArmAlways(J, id, insertOk) == J \cup {id}

\* process_post_time after db.add_scheduled_post: no post id, no add_job.
ArmAfterInsert(J, id, insertOk) == IF insertOk THEN J \cup {id} ELSE J

\* process_channel_link as a whole.
ChannelLinkMessage(msg) ==
    \E userOk, isAdmin, addOk \in BOOLEAN :
      LET U == IF userOk THEN GetOrCreateUser(users, Owner) ELSE users
          o == IF ~userOk THEN "no_user"
               ELSE IF msg.text \notin ChannelIds THEN "no_channel"
               ELSE IF ~isAdmin THEN "not_admin"
               ELSE IF addOk THEN "linked" ELSE "link_failed"
      IN  /\ users' = U
          /\ chan' = IF o = "linked" THEN [chan EXCEPT ![msg.text] = "active"] ELSE chan
          /\ fsm' = IF o = "no_channel" THEN fsm ELSE FsmClear
          /\ Handled(msg, "process_channel_link", o)
          /\ UNCHANGED <<posts, jobs, broadcasts>>

\* process_post_text for a message with text.
PostTextMessage(msg) ==
    /\ fsm' = [fsm EXCEPT !.state = "waiting_for_time", !.message_text = TRUE]
    /\ Handled(msg, "process_post_text", "text_taken")
    /\ UNCHANGED <<users, chan, posts, jobs, broadcasts>>

\* process_post_time as a whole.
PostTimeMessage(msg) ==
    \E insertOk \in BOOLEAN :
      LET parsed == ParseTime(msg)
          sched == IF parsed = NULL THEN 0 ELSE Combine(now, parsed[1])
          o == IF parsed = NULL THEN "bad_format"
               ELSE IF TimeCheck(sched, now) # "ok" THEN TimeCheck(sched, now)
               ELSE IF fsm.user_id = NULL \/ fsm.channel_id = NULL \/ ~fsm.message_text
                    THEN "bad_data"
               ELSE IF insertOk THEN "scheduled" ELSE "insert_failed"
      IN  /\ posts' = IF o = "scheduled"
                      THEN Append(posts, NewPost(fsm.channel_id[1], sched))
                      ELSE posts
          /\ jobs' = IF o \in {"scheduled", "insert_failed"}
                     THEN ArmAfterInsert(jobs, Len(posts) + 1, insertOk)
                     ELSE jobs
          /\ fsm' = IF o \in {"bad_format", "too_soon", "too_far"} THEN fsm ELSE FsmClear
          /\ Handled(msg, "process_post_time", o)
          /\ UNCHANGED <<users, chan, broadcasts>>

\* admin_broadcast_send as a whole: get_all_users, save_broadcast, the
\* message is sent to every user, state.clear().
BroadcastMessage(msg) ==
    \E saveOk \in BOOLEAN :
      LET o == IF users = <<>> THEN "no_users"
               ELSE IF saveOk THEN "broadcast" ELSE "save_failed"
      IN  /\ broadcasts' = IF o = "broadcast" THEN broadcasts + 1 ELSE broadcasts
          /\ fsm' = FsmClear
          /\ Handled(msg, "admin_broadcast_send", o)
          /\ UNCHANGED <<users, chan, posts, jobs>>

\* admin_add_subscription_process as a whole.
SubscriptionMessage(msg) ==
    \E userOk, ok \in BOOLEAN :
      LET id == ParseId(msg)
          U == IF id # NULL /\ userOk THEN GetOrCreateUser(users, id[1]) ELSE users
          o == IF id = NULL THEN "bad_id"
               ELSE IF ~userOk THEN "not_found"
               ELSE IF UserRow(U, id[1]).subscribed THEN "already"
               ELSE IF ok THEN "granted" ELSE "grant_failed"
      IN  /\ users' = IF o = "granted" THEN UpdateUserSubscription(U, id[1], now) ELSE U
          /\ fsm' = IF o \in {"granted", "grant_failed"} THEN FsmClear ELSE fsm
          /\ Handled(msg, "admin_add_subscription_process", o)
          /\ UNCHANGED <<chan, posts, jobs, broadcasts>>

\* cmd_cancel: nothing to cancel without a state, else state.clear().
CancelMessage(msg) ==
    /\ fsm' = FsmClear
    /\ Handled(msg, "cmd_cancel",
               IF fsm.state = "none" THEN "nothing_to_cancel" ELSE "cancelled")
    /\ UNCHANGED <<users, chan, posts, jobs, broadcasts>>

\* A message arrives and the router gives it to a handler.
OnMessage(msg) ==
    /\ running
    /\ Len(posts) < MaxPosts
    /\ Len(users) < MaxUsers
    /\ broadcasts < MaxBroadcasts
    /\ LET h == Route(fsm.state, msg.text) IN
         CASE h = "process_channel_link" -> ChannelLinkMessage(msg)
           [] h = "process_post_text" -> PostTextMessage(msg)
           [] h = "process_post_time" -> PostTimeMessage(msg)
           [] h = "admin_broadcast_send" -> BroadcastMessage(msg)
           [] h = "admin_add_subscription_process" -> SubscriptionMessage(msg)
           [] h = "cmd_cancel" -> CancelMessage(msg)
           [] OTHER -> /\ Handled(msg, "unhandled", "none")
                       /\ UNCHANGED <<fsm, users, chan, posts, jobs, broadcasts>>
    /\ UNCHANGED <<now, running, probe, calls, links, closing, jobStore, lateVars,
                   sweepArmed, sweepDue, pc, batch, sent, lastEvent, dueBatch,
                   sweepFailed, rearmed, fault>>

\* callback_admin_broadcast: set_state(AdminBroadcastStates.waiting_for_message)
CallbackAdminBroadcast ==
    /\ running
    /\ fsm' = [fsm EXCEPT !.state = "waiting_for_message"]
    /\ UNCHANGED <<now, running, chan, users, calls, links, probe>>
    /\ UNCHANGED deliveryVars
    /\ UNCHANGED extVars

\* callback_admin_add_subscription:
\* set_state(AdminAddSubscriptionStates.waiting_for_user_id)
CallbackAdminAddSubscription ==
    /\ running
    /\ fsm' = [fsm EXCEPT !.state = "waiting_for_user_id"]
    /\ UNCHANGED <<now, running, chan, users, calls, links, probe>>
    /\ UNCHANGED deliveryVars
    /\ UNCHANGED extVars

ConvNext ==
    \/ OnStartup
    \/ HandleAddChannel
    \/ HandleSchedulePost
    \/ \E c \in ChannelIds : CallbackSelectChannel(c)
    \/ CallbackAdminBroadcast
    \/ CallbackAdminAddSubscription
    \/ \E msg \in Messages : OnMessage(msg)

ConvSpec == Init /\ [][ConvNext]_vars

\* ------------------------------------------------------ the administrator

\* Config.ADMIN_ID
ADMIN_ID == "tg1"

\* A check that lets every account through.
IsAnyone(a) == TRUE

\* from_user.id != Config.ADMIN_ID, negated
IsAdmin(a) == a = ADMIN_ID

\* What a message sent for a broadcast is: message.text is set, or
\* message.photo, or message.video, or none of them (a document, a sticker,
\* a voice message, ...).
MessageKinds == {"text", "photo", "video", "other"}

\* The update served by this step came from account a.
Serves(a) == actor' = [id |-> a, turn |-> 1 - actor.turn]

\* What the administrator's handlers leave alone.
AdminFrame ==
    /\ UNCHANGED <<now, running, chan, calls, fsm, links, probe>>
    /\ UNCHANGED deliveryVars
    /\ UNCHANGED <<closing, update, jobStore, timing, store>>

\* cmd_start of account a: get_or_create_user (None on a failure).
CmdStart(a) ==
    /\ running
    /\ Len(users) < MaxUsers
    /\ \E ok \in BOOLEAN : users' = IF ok THEN GetOrCreateUser(users, a) ELSE users
    /\ Serves(a)
    /\ UNCHANGED <<broadcasts, fanout, adminFsm>>
    /\ AdminFrame

\* callback_admin_broadcast pressed by account a: an alert for another
\* account than the administrator, else
\* set_state(AdminBroadcastStates.waiting_for_message).
CallbackAdminBroadcastBy(a) ==
    /\ running
    /\ adminFsm' = IF IsAdmin(a)
                   THEN [adminFsm EXCEPT ![a] = "waiting_for_message"]
                   ELSE adminFsm
    /\ Serves(a)
    /\ UNCHANGED <<users, broadcasts, fanout>>
    /\ AdminFrame

\* callback_admin_add_subscription pressed by account a.
CallbackAdminAddSubscriptionBy(a) ==
    /\ running
    /\ adminFsm' = IF IsAdmin(a)
                   THEN [adminFsm EXCEPT ![a] = "waiting_for_user_id"]
                   ELSE adminFsm
    /\ Serves(a)
    /\ UNCHANGED <<users, broadcasts, fanout>>
    /\ AdminFrame

\* The ids of all_users = get_all_users(), in the order of the loop.
AllUsers(U) == [i \in 1..Len(U) |-> Len(U) + 1 - i]

\* A message of kind k from account a, as far as admin_broadcast_send is
\* concerned, up to the loop: the state filter, the ADMIN_ID check,
\* get_all_users (no user, or [] on a failure: answer, state.clear()),
\* save_broadcast with total_count = (SELECT COUNT(*) FROM users) (None on
\* a failure: answer, state.clear()).
AdminBroadcastSend(a, k) ==
    /\ running
    /\ fanout.pc \in {"idle", "done"}
    /\ broadcasts < MaxBroadcasts
    /\ Serves(a)
    /\ \E storeOk \in BOOLEAN :
         IF adminFsm[a] # "waiting_for_message"
         THEN UNCHANGED <<adminFsm, fanout, broadcasts>>
         ELSE IF ~IsAdmin(a) \/ ~storeOk \/ users = <<>>
         THEN /\ adminFsm' = [adminFsm EXCEPT ![a] = "none"]
              /\ UNCHANGED <<fanout, broadcasts>>
         ELSE /\ adminFsm' = adminFsm
              /\ broadcasts' = broadcasts + 1
              /\ fanout' = [pc |-> "loop", sender |-> a, kind |-> k,
                            todo |-> AllUsers(users),
                            sent_count |-> 0, delivered |-> 0, attempted |-> 0,
                            id |-> Len(fanout.rows) + 1, writes |-> 0,
                            rows |-> Append(fanout.rows,
                                            [sent_count |-> 0,
                                             total_count |-> Len(users)])]
    /\ UNCHANGED users
    /\ AdminFrame

\* One turn of the loop over all_users: send_message, send_photo or
\* send_video according to the kind of the message, nothing for another
\* kind, then sent_count += 1; an exception of the send is caught, counted
\* in failed_count and the loop goes on.  After the last user the loop ends.
BroadcastToNextUser ==
    /\ running
    /\ fanout.pc = "loop"
    /\ fanout.todo # <<>>
    /\ \E ok \in BOOLEAN :
         LET sends == fanout.kind \in {"text", "photo", "video"} IN
         fanout' = [fanout EXCEPT
                      !.todo = Tail(@),
                      !.attempted = @ + 1,
                      !.delivered = IF sends /\ ok THEN @ + 1 ELSE @,
                      !.sent_count = IF sends /\ ~ok THEN @ ELSE @ + 1]
    /\ Serves(fanout.sender)
    /\ UNCHANGED <<users, broadcasts, adminFsm>>
    /\ AdminFrame

\* After the loop: update_broadcast_stats(broadcast_id, sent_count), whose
\* failure is logged inside and not looked at, the result text, state.clear().
BroadcastStats ==
    /\ running
    /\ fanout.pc = "loop"
    /\ fanout.todo = <<>>
    /\ \E ok \in BOOLEAN :
         fanout' = [fanout EXCEPT
                      !.pc = "done",
                      !.writes = IF ok THEN @ + 1 ELSE @,
                      !.rows = IF ok
                               THEN [@ EXCEPT ![fanout.id].sent_count = fanout.sent_count]
                               ELSE @]
    /\ adminFsm' = [adminFsm EXCEPT ![fanout.sender] = "none"]
    /\ Serves(fanout.sender)
    /\ UNCHANGED <<users, broadcasts>>
    /\ AdminFrame

\* A message from account a naming account u, as far as
\* admin_add_subscription_process is concerned: the state filter, the
\* ADMIN_ID check (answer, state.clear()), int(message.text) and
\* get_or_create_user (ValueError or None: answer), a user subscribed already
\* (answer), update_user_subscription(u, subscribed=True, days=30) (False:
\* answer, state.clear()), state.clear().
AdminAddSubscriptionBy(a, u) ==
    /\ running
    /\ Len(users) < MaxUsers
    /\ Serves(a)
    /\ \E userOk, updateOk \in BOOLEAN :
         LET U == GetOrCreateUser(users, u) IN
         IF adminFsm[a] # "waiting_for_user_id"
         THEN UNCHANGED <<adminFsm, users>>
         ELSE IF ~IsAdmin(a)
         THEN /\ adminFsm' = [adminFsm EXCEPT ![a] = "none"]
              /\ users' = users
         ELSE IF ~userOk
         THEN UNCHANGED <<adminFsm, users>>
         ELSE IF UserRow(U, u).subscribed
         THEN /\ adminFsm' = adminFsm
              /\ users' = U
         ELSE /\ adminFsm' = [adminFsm EXCEPT ![a] = "none"]
              /\ users' = IF updateOk THEN UpdateUserSubscription(U, u, now) ELSE U
    /\ UNCHANGED <<broadcasts, fanout>>
    /\ AdminFrame

AdminNext ==
    \/ OnStartup
    \/ \E a \in TelegramIds : CmdStart(a)
    \/ \E a \in TelegramIds : CallbackAdminBroadcastBy(a)
    \/ \E a \in TelegramIds : CallbackAdminAddSubscriptionBy(a)
    \/ \E a \in TelegramIds, k \in MessageKinds : AdminBroadcastSend(a, k)
    \/ BroadcastToNextUser
    \/ BroadcastStats
    \/ \E a, u \in TelegramIds : AdminAddSubscriptionBy(a, u)

AdminSpec == Init /\ [][AdminNext]_vars

\* ------------------------------------------------------ the two backends

\* Database.connect: asyncpg for a postgres DATABASE_URL, else aiosqlite
Backends == {"postgres", "sqlite"}

\* message.from_user.username: none ("") or a handle
Handles == {"", "ann", "bob"}

\* chat.title of the channel at the time of the call
Titles == {"News", "News 2"}

\* db.connect() on backend b.
Connect(b) ==
    /\ running
    /\ store.backend = "none"
    /\ store' = [store EXCEPT !.backend = b]
    /\ UNCHANGED <<now, running, chan, users, calls, fsm, links, probe>>
    /\ UNCHANGED deliveryVars
    /\ UNCHANGED <<closing, broadcasts, update, jobStore, timing, fanout, adminFsm, actor>>

\* Database.get_or_create_user(u, username=name) on backend b, over the
\* column username N: what the column is afterwards and the username of the
\* returned record.  No row: INSERT, and the new row is returned.  A row on
\* postgres: UPDATE users SET username for a non-empty name that differs,
\* then dict(user), the row as the SELECT before the UPDATE gave it.  A row
\* on sqlite: the row is returned, there is no UPDATE.
GetOrCreateUserRow(b, N, u, name) ==
    IF N[u] = "absent"
    THEN [username |-> [N EXCEPT ![u] = name], result |-> name]
    ELSE IF b = "postgres" /\ name # "" /\ N[u] # name
    THEN [username |-> [N EXCEPT ![u] = name], result |-> N[u]]
    ELSE [username |-> N, result |-> N[u]]

\* A call get_or_create_user(u, username=name) that does not raise.
CallGetOrCreateUser(u, name) ==
    /\ running
    /\ store.backend # "none"
    /\ Len(users) < MaxUsers
    /\ users' = GetOrCreateUser(users, u)
    /\ LET r == GetOrCreateUserRow(store.backend, store.username, u, name) IN
         store' = [store EXCEPT
                     !.username = r.username,
                     !.returned = [tg |-> u, passed |-> name,
                                   before |-> store.username[u],
                                   username |-> r.result]]
    /\ UNCHANGED <<now, running, chan, calls, fsm, links, probe>>
    /\ UNCHANGED deliveryVars
    /\ UNCHANGED <<closing, broadcasts, update, jobStore, timing, fanout, adminFsm, actor>>

\* Database.add_channel(uid, c, title) on backend b, over the rows R of
\* table channels, id being the next id a new row gets.  postgres:
\* INSERT ... ON CONFLICT (user_id, channel_id) DO UPDATE SET is_active =
\* TRUE, channel_title = EXCLUDED.channel_title.  sqlite: INSERT OR REPLACE,
\* which deletes the row that conflicts on UNIQUE(user_id, channel_id) and
\* inserts a new one (id INTEGER PRIMARY KEY AUTOINCREMENT, created_at
\* DEFAULT CURRENT_TIMESTAMP).
AddChannelRows(b, R, id, uid, c, title, t) ==
    LET old == {r \in R : r.user_id = uid /\ r.channel_id = c}
        new == [id |-> id, user_id |-> uid, channel_id |-> c,
                channel_title |-> title, is_active |-> TRUE, created_at |-> t]
    IN  IF old = {} \/ b = "sqlite"
        THEN (R \ old) \cup {new}
        ELSE (R \ old) \cup
             {[r EXCEPT !.is_active = TRUE, !.channel_title = title] : r \in old}

\* A call add_channel(owner's id, c, title) that does not raise, as
\* process_channel_link makes it.
CallAddChannel(c, title) ==
    /\ running
    /\ store.backend # "none"
    /\ store.nextId <= MaxAdds
    /\ chan' = [chan EXCEPT ![c] = "active"]
    /\ store' = [store EXCEPT
                   !.channels = AddChannelRows(store.backend, @, store.nextId,
                                               UserId, c, title, now),
                   !.nextId = @ + 1,
                   !.before = store.channels,
                   !.again = \E r \in store.channels :
                                /\ r.user_id = UserId
                                /\ r.channel_id = c
                                /\ r.channel_title = title
                                /\ r.is_active]
    /\ UNCHANGED <<now, running, users, calls, fsm, links, probe>>
    /\ UNCHANGED deliveryVars
    /\ UNCHANGED <<closing, broadcasts, update, jobStore, timing, fanout, adminFsm, actor>>

RowNext ==
    \/ OnStartup
    \/ \E b \in Backends : Connect(b)
    \/ \E u \in TelegramIds, name \in Handles : CallGetOrCreateUser(u, name)
    \/ \E c \in ChannelIds, title \in Titles : CallAddChannel(c, title)

RowSpec == Init /\ [][RowNext]_vars

\* ------------------------------------------------------------ the way out

\* on_shutdown, in the order of its statements: scheduler.shutdown(),
\* await db.close(), await bot.session.close().
ShutdownSteps == <<"scheduler", "store", "session">>

\* The statement of on_shutdown after statement a.
StepAfter(a) ==
    IF a = "scheduler" THEN "store" ELSE IF a = "store" THEN "session" ELSE "none"

\* main(): dp.startup.register(on_startup), then dp.start_polling, which
\* runs the startup hooks before it polls.
StartPolling ==
    /\ closing.phase = "polling"
    /\ OnStartup

\* Polling ends (a stop signal, or an exception of start_polling): the
\* dispatcher runs the registered shutdown hook, on_shutdown.
StopPolling ==
    /\ running
    /\ closing.phase = "polling"
    /\ closing' = [closing EXCEPT !.phase = "hook", !.at = "scheduler"]
    /\ UNCHANGED <<now, running, chan, probe, users, calls, fsm, links,
                   broadcasts, update, jobStore, lateVars>>
    /\ UNCHANGED deliveryVars

\* on_shutdown returns: after the run the dispatcher made, main() reaches
\* its finally clause, which awaits on_shutdown() once more; after that run
\* main() is over.
AfterHook(phase) == IF phase = "hook" THEN "finally" ELSE "exited"

\* scheduler.shutdown().  On a running scheduler it stops it and drops the
\* in-memory job store.  On a scheduler that is stopped already it raises
\* SchedulerNotRunningError, to the caller or, where the scheduler defers
\* the call to the event loop, inside the loop, where it is logged.
ShutdownScheduler ==
    /\ closing.phase \in {"hook", "finally"}
    /\ closing.at = "scheduler"
    /\ IF running
       THEN /\ closing' = [closing EXCEPT !.at = StepAfter("scheduler"),
                                          !.trace = Append(@, "scheduler")]
            /\ running' = FALSE
            /\ jobs' = {}
            /\ sweepArmed' = FALSE
            /\ sweepDue' = FALSE
            /\ pc' = [k \in Invokers |-> "idle"]
            /\ batch' = <<>>
            /\ dueBatch' = {}
            /\ sweepFailed' = {}
            /\ rearmed' = {}
            /\ lastEvent' = NoEvent
            /\ UNCHANGED <<posts, sent, fault>>
       ELSE /\ \E toCaller \in BOOLEAN :
                 closing' = IF toCaller
                            THEN [closing EXCEPT !.phase = "exited", !.at = "none",
                                                 !.trace = Append(@, "scheduler"),
                                                 !.raised = TRUE]
                            ELSE [closing EXCEPT !.at = StepAfter("scheduler"),
                                                 !.trace = Append(@, "scheduler")]
            /\ UNCHANGED <<running, jobs, sweepArmed, sweepDue, pc, batch, dueBatch,
                           sweepFailed, rearmed, lastEvent, posts, sent, fault>>
    /\ UNCHANGED <<now, chan, probe, users, calls, fsm, links, broadcasts, update,
                   jobStore, lateVars>>

\* await db.close(): the pool or the connection is closed; an exception is
\* caught and logged inside Database.close.
CloseStore ==
    /\ closing.phase \in {"hook", "finally"}
    /\ closing.at = "store"
    /\ closing' = [closing EXCEPT !.at = StepAfter("store"),
                                  !.trace = Append(@, "store")]
    /\ UNCHANGED <<now, running, chan, probe, users, calls, fsm, links,
                   broadcasts, update, jobStore, lateVars>>
    /\ UNCHANGED deliveryVars

\* await bot.session.close(), the last statement of on_shutdown.
CloseSession ==
    /\ closing.phase \in {"hook", "finally"}
    /\ closing.at = "session"
    /\ closing' = [closing EXCEPT
                      !.phase = AfterHook(closing.phase),
                      !.at = IF AfterHook(closing.phase) = "finally"
                             THEN "scheduler" ELSE "none",
                      !.trace = Append(@, "session")]
    /\ UNCHANGED <<now, running, chan, probe, users, calls, fsm, links,
                   broadcasts, update, jobStore, lateVars>>
    /\ UNCHANGED deliveryVars

ShutNext ==
    \/ StartPolling
    \/ Tick
    \/ \E c \in ChannelIds : ProcessChannelLink(c)
    \/ \E c \in ChannelIds, m \in 0..MaxTime : ProcessPostTime(c, m)
    \/ StopPolling
    \/ ShutdownScheduler
    \/ CloseStore
    \/ CloseSession

ShutSpec == Init /\ [][ShutNext]_vars

\* ------------------------------------------------------------ vocabulary

\* Invoker k has a publish_scheduled_post call for post p in flight.
InFlight(k, p) == pc[k] # "idle" /\ CurPost(k) = p

\* Invoker k's call has performed its outbound send and has not returned.
HasSent(k) == pc[k] \in {"mark", "notify"}

\* The posts still on the running sweep's list.
InBatch == {batch[i] : i \in DOMAIN batch}

\* Nothing is armed, running or queued for post p any more.
Quiet(p) == p \notin jobs /\ pc[p] = "idle" /\ p \notin InBatch

\* This step is the return of invoker k's call to its caller: the one-shot
\* job is over, the sweep goes on with the rest of its list.
Returns(k) ==
    IF k = Sweep
    THEN batch' = Tail(batch) /\ pc'[k] = (IF batch' = <<>> THEN "idle" ELSE "load")
    ELSE pc'[k] = "idle"

\* This step is the answer to the SELECT of invoker k's call.
LoadStep(k) ==
    /\ running'
    /\ pc[k] = "load"
    /\ (pc'[k] # "load" \/ (k = Sweep /\ batch' # batch))

\* ------------------------------------------------------------------ claims

\* C1: when the one-shot job of a post and the sweep both run
\* publish_scheduled_post for that post, interleaved at their await points,
\* only one of the two calls performs an outbound send.
C1_OverlapSendsOnce ==
    \A p \in PostIds :
        ~(InFlight(p, p) /\ InFlight(Sweep, p) /\ HasSent(p) /\ HasSent(Sweep))

\* C2: after any sequence of timer firings, sweeps, store-write failures and
\* restarts, no post has been sent to its channel more than once.
C2_NoDuplicateSend == \A p \in PostIds : sent[p] <= 1

\* C3: a post that on_startup armed a one-shot job for has been sent exactly
\* once when the clock has passed its due time and its deliveries are over,
\* in a run in which no store or transport operation failed.
C3_RestartExactlyOnce ==
    \A p \in rearmed :
        (running /\ ~fault /\ posts[p].scheduled_time <= now /\ Quiet(p))
            => sent[p] = 1

\* C4, first half: a post that is past due, unpublished and on an active
\* channel is in every list get_posts_to_publish can return.
C4_Returned ==
    \A p \in DOMAIN posts :
        (posts[p].scheduled_time <= now /\ ~posts[p].is_published
            /\ chan[posts[p].channel_id] = "active")
        => \A s \in GetPostsToPublish(posts, chan, now) :
              \E i \in DOMAIN s : s[i] = p

C5_NoSendBeforeDue ==
    [][\A p \in DOMAIN posts :
          sent'[p] > sent[p] => posts[p].scheduled_time <= now]_vars

\* C6: a call for a post id that does not exist or whose post is already
\* published returns at once: no outbound send, no notification, the store
\* unchanged.
C6_NoOpWhenMissingOrPublished ==
    [][\A k \in Invokers :
          (LoadStep(k)
             /\ (CurPost(k) \notin DOMAIN posts \/ posts[CurPost(k)].is_published))
          => /\ Returns(k)
             /\ sent' = sent
             /\ lastEvent'.ev # "notified"
             /\ posts' = posts
             /\ chan' = chan]_vars

\* C6 witness: a one-shot job has just found its post already published.
C6_Witness ==
    /\ lastEvent.ev = "no_row"
    /\ lastEvent.by = lastEvent.post
    /\ lastEvent.post \in DOMAIN posts
    /\ posts[lastEvent.post].is_published
    /\ pc[lastEvent.by] = "idle"

\* C7: a second mark_post_published on a post leaves it exactly as the
\* first call left it: published_at keeps the value of the first call.
C7_SecondMarkKeepsFirst ==
    [][\A p \in DOMAIN posts : posts[p].is_published => posts'[p] = posts[p]]_vars

\* C8, state part: is_published only after a successful outbound send, and
\* published_at set exactly when is_published.
C8_State ==
    \A p \in DOMAIN posts :
        /\ posts[p].is_published => sent[p] >= 1
        /\ (posts[p].published_at # NULL) <=> posts[p].is_published

\* C8, step part: is_published never goes back to false.
C8_Step ==
    \A p \in DOMAIN posts :
        posts[p].is_published => (p \in DOMAIN posts' /\ posts'[p].is_published)

\* C8: in every reachable state is_published holds only if an outbound send
\* of the post has succeeded, published_at is set iff is_published, and
\* is_published, once true, never becomes false again.
C8_PublishedOnlyAfterSend == []C8_State /\ [][C8_Step]_vars

\* C8 witness: a post has been sent and marked published.
C8_Witness ==
    \E p \in DOMAIN posts :
        posts[p].is_published /\ posts[p].published_at # NULL /\ sent[p] = 1

\* C9: when the outbound send fails, the call leaves the post as it is
\* (unpublished, published_at unset), sends no success notification and
\* returns normally to its caller.
C9_SendFailureLeavesUnpublished ==
    [][\A k \in Invokers :
          (lastEvent'.ev = "send_failed" /\ lastEvent'.by = k)
          => /\ posts' = posts
             /\ (~posts[CurPost(k)].is_published
                   => /\ ~posts'[CurPost(k)].is_published
                      /\ posts'[CurPost(k)].published_at = NULL)
             /\ sent' = sent
             /\ Returns(k)
             /\ running' /\ sweepArmed' /\ jobs' = jobs]_vars

\* C9 witness: a send has just failed on a post that was never sent.
C9_Witness ==
    /\ lastEvent.ev = "send_failed"
    /\ lastEvent.post \in DOMAIN posts
    /\ ~posts[lastEvent.post].is_published
    /\ posts[lastEvent.post].published_at = NULL
    /\ sent[lastEvent.post] = 0

\* C10: a call for an unpublished post whose channel is inactive does not
\* go on to the outbound send.
C10_InactiveChannelNotSent ==
    [][\A k \in Invokers :
          (LoadStep(k)
             /\ CurPost(k) \in DOMAIN posts
             /\ ~posts[CurPost(k)].is_published
             /\ chan[posts[CurPost(k)].channel_id] = "inactive")
          => pc'[k] # "send"]_vars

\* C11: a post that is past due and unpublished while its channel is inactive
\* is not marked published by any step and is in every list
\* get_posts_to_publish can return.
C11_InactiveKeepsSurfacing ==
    [][\A p \in DOMAIN posts :
          (posts[p].scheduled_time <= now /\ ~posts[p].is_published
              /\ chan[posts[p].channel_id] = "inactive")
          => /\ chan'[posts[p].channel_id] = "inactive" => ~posts'[p].is_published
             /\ \A s \in GetPostsToPublish(posts, chan, now) :
                   \E i \in DOMAIN s : s[i] = p]_vars

C15_NotifyFailureKeepsPublished ==
    [][\A k \in Invokers :
          (lastEvent'.ev = "notify_failed" /\ lastEvent'.by = k)
          => /\ posts' = posts
             /\ (posts[CurPost(k)].is_published
                   => /\ posts'[CurPost(k)].is_published
                      /\ posts'[CurPost(k)].published_at # NULL)
             /\ sent' = sent
             /\ Returns(k)
             /\ running' /\ sweepArmed' /\ jobs' = jobs]_vars

\* C15 witness: the notification has just failed for a post that was sent
\* and marked published.
C15_Witness ==
    /\ lastEvent.ev = "notify_failed"
    /\ posts[lastEvent.post].is_published
    /\ posts[lastEvent.post].published_at # NULL
    /\ sent[lastEvent.post] >= 1
    /\ pc[lastEvent.by] = "idle"

\* C20, for get_posts_to_publish: when the query fails, what the caller gets
\* is not what a successful query with no due post returns.
C20_ScanFailureDistinct ==
    [][lastEvent'.ev = "scan_failed"
          => batch' \notin ScanResults(<<>>, chan, now, TRUE)]_vars

\* C13: a request is turned away as too soon when its due time is earlier
\* than now + 2 minutes, as too far ahead when it is later than now + 24
\* hours, and accepted in between, both ends included: now + 1 minute and
\* now + 25 hours are turned away, now + 2 minutes and now + 23 hours pass.
C13_TimeWindow ==
    probe.verdict # "none" =>
        /\ probe.due < probe.at + MinLead => probe.verdict = "too_soon"
        /\ probe.due > probe.at + DayMinutes => probe.verdict = "too_far"
        /\ (probe.at + MinLead <= probe.due /\ probe.due <= probe.at + DayMinutes)
              => probe.verdict = "ok"
        /\ probe.due = probe.at + 1 => probe.verdict = "too_soon"
        /\ probe.due = probe.at + 2 => probe.verdict = "ok"
        /\ probe.due = probe.at + 23 * Hour => probe.verdict = "ok"
        /\ probe.due = probe.at + 25 * Hour => probe.verdict = "too_far"

\* C13 witness: a request for now + 2 minutes has been accepted.
C13_Witness ==
    /\ probe.verdict = "ok"
    /\ probe.due = probe.at + MinLead
    /\ probe.at = now

\* C18, state part: every user row is on the free tier or on the granted
\* tier, nothing in between.
C18_State ==
    \A i \in DOMAIN users :
        \/ /\ ~users[i].subscribed
           /\ users[i].channels_limit = FreeChannels
           /\ users[i].posts_per_day_limit = FreePosts
        \/ /\ users[i].subscribed
           /\ users[i].subscription_until # NULL
           /\ users[i].channels_limit = TariffChannels
           /\ users[i].posts_per_day_limit = TariffPosts

\* C18, step part: a row changes only by a grant, which takes it from the
\* free tier to the granted tier with flag, expiry and both limits at once.
C18_Step ==
    \A i \in DOMAIN users :
        users'[i] # users[i]
        => /\ ~users[i].subscribed
           /\ users'[i].subscribed
           /\ users'[i].subscription_until # NULL
           /\ users'[i].channels_limit = TariffChannels
           /\ users'[i].posts_per_day_limit = TariffPosts

\* C18: in every reachable state each user is on the free tier (flag down,
\* limits 1 and 3) or on the granted tier (flag up, expiry set, limits 2 and
\* 8), and a grant changes flag, expiry and both limits in one step.
C18_TierIsWhole == []C18_State /\ [][C18_Step]_vars

\* C18 witness: a user has been granted the tier.
C18_Witness ==
    \E i \in DOMAIN users :
        /\ users[i].subscribed
        /\ users[i].subscription_until # NULL
        /\ users[i].channels_limit = TariffChannels
        /\ users[i].posts_per_day_limit = TariffPosts

\* C19: the store never holds two user rows for one telegram_id, and a
\* get_or_create_user call that returned a row leaves exactly one row for
\* its telegram_id, however the calls interleave.
C19_OneRowPerTelegramId ==
    /\ \A u \in TelegramIds : Cardinality(FindUser(users, u)) <= 1
    /\ \A i \in CallIds :
          calls[i].result \in {"row", "conflict"}
          => Cardinality(FindUser(users, calls[i].tg)) = 1

\* C19 witness: two calls for the same new telegram_id both passed their
\* SELECT before either INSERT; one got the row, the other was refused.
C19_Witness ==
    \E i, j \in CallIds :
        /\ calls[i].tg = calls[j].tg
        /\ calls[i].result = "row"
        /\ calls[j].result = "conflict"
        /\ Cardinality(FindUser(users, calls[i].tg)) = 1

\* C17: the number of active channels of a user never exceeds the user's
\* channels_limit, also when channel-link messages are handled interleaved.
C17_ChannelsWithinLimit ==
    FindUser(users, Owner) # {}
    => ChannelsCount(chan) <= UserRow(users, Owner).channels_limit

\* C16: the number of posts a user has scheduled for the current UTC day
\* never exceeds the user's posts_per_day_limit.
C16_DailyLimitKept ==
    FindUser(users, Owner) # {}
    => Cardinality({p \in DOMAIN posts :
                       /\ posts[p].user_id = UserId
                       /\ Day(posts[p].scheduled_time) = Day(now)})
          <= UserRow(users, Owner).posts_per_day_limit

\* C12, step part: a failed send is not tried again inside the call; the
\* call returns to its caller.
C12_Step ==
    \A k \in Invokers :
        (lastEvent'.ev = "send_failed" /\ lastEvent'.by = k)
        => Returns(k) /\ sent' = sent /\ pc'[k] # "send"

\* C12: after a failed delivery attempt the post is not re-sent at once, and
\* with the bot running, the channel active and the transport succeeding at
\* some time, the post is published in the end.
C12_RetriedBySweep ==
    /\ [][C12_Step]_vars
    /\ \A p \in PostIds :
          (lastEvent.ev = "send_failed" /\ lastEvent.post = p)
              ~> (p \in DOMAIN posts /\ posts[p].is_published)

\* C12 witness: the one-shot job of a post has run and ended without a
\* send, and a later sweep has sent the post and is about to mark it.
C12_Witness ==
    /\ pc[Sweep] = "mark"
    /\ \E p \in DOMAIN posts :
          /\ CurPost(Sweep) = p
          /\ p \notin jobs
          /\ pc[p] = "idle"
          /\ ~posts[p].is_published
          /\ sent[p] = 1
          /\ posts[p].scheduled_time < now

\* C21: when on_startup has completed, the interval job is armed and the armed
\* one-shot jobs are exactly the unpublished posts whose due time is in the
\* future.
C21_StartupRebuildsTimers ==
    [][(~running /\ running')
          => /\ sweepArmed'
             /\ jobs' = {p \in DOMAIN posts :
                            ~posts[p].is_published /\ posts[p].scheduled_time > now}]_vars

\* C22: when the process has shut down, the scheduler was stopped, then the
\* store closed, then the transport session closed, each once, and nothing
\* was raised.
C22_ShutdownOnceInOrder ==
    closing.phase = "exited"
    => closing.trace = ShutdownSteps /\ ~closing.raised

\* C23: from every conversational state a /cancel message clears the
\* conversation state and creates or sends no post, no channel, no broadcast
\* and no subscription.
C23_CancelClears ==
    [][(update'.turn # update.turn /\ update'.msg = "/cancel")
          => /\ fsm' = FsmClear
             /\ posts' = posts
             /\ jobs' = jobs
             /\ chan' = chan
             /\ broadcasts' = broadcasts
             /\ \A i \in DOMAIN users' :
                   users'[i].subscribed => (i \in DOMAIN users /\ users[i].subscribed)]_vars

\* C24: every list get_posts_to_publish can return holds exactly the posts
\* that are unpublished, due at most 5 minutes from now and on an active
\* channel: no published post, no post of an inactive channel, no post due
\* later than that.
C24_ScanReturnsExactlyDue ==
    /\ GetPostsToPublish(posts, chan, now) # {}
    /\ \A s \in GetPostsToPublish(posts, chan, now) :
          {s[i] : i \in DOMAIN s}
             = {p \in DOMAIN posts :
                   /\ ~posts[p].is_published
                   /\ posts[p].scheduled_time <= now + Lookahead
                   /\ chan[posts[p].channel_id] = "active"}

\* C24 witness: of two unpublished posts on the active channel the scan
\* returns the one that is due and leaves out the one due much later.
C24_Witness ==
    /\ chan["@chan"] = "active"
    /\ \E p, q \in DOMAIN posts :
          /\ ~posts[p].is_published
          /\ posts[p].scheduled_time <= now + Lookahead
          /\ ~posts[q].is_published
          /\ posts[q].scheduled_time > now + Lookahead
          /\ GetPostsToPublish(posts, chan, now) = {<<p>>}

\* C25, state part: the posts the running sweep has still to go through are
\* distinct and in ascending order of scheduled_time.
C25_State ==
    \A i, j \in DOMAIN batch :
        i < j => /\ batch[i] # batch[j]
                 /\ posts[batch[i]].scheduled_time <= posts[batch[j]].scheduled_time

\* C25, step part: while a sweep runs, its list changes only by losing its
\* first post, at the step at which the call for that post ends, and the
\* call for the next post starts after it.
C25_Step ==
    (running' /\ pc[Sweep] # "idle")
    => /\ batch' \in {batch, Tail(batch)}
       /\ batch' # batch
            => /\ pc[Sweep] \in {"load", "send", "notify"}
               /\ pc'[Sweep] = (IF batch' = <<>> THEN "idle" ELSE "load")
       /\ batch' = batch => pc'[Sweep] # "idle"

\* C25: within one execution of check_pending_posts, publish_scheduled_post
\* is called once for each post of the list, in ascending order of
\* scheduled_time, the next call only after the previous one has ended.
C25_SweepInOrder == []C25_State /\ [][C25_Step]_vars

\* C25 witness: the sweep has finished its call for an earlier post and is
\* at its call for a post that is due later.
C25_Witness ==
    /\ pc[Sweep] = "load"
    /\ Len(batch) = 1
    /\ lastEvent.by = Sweep
    /\ lastEvent.ev \in {"notified", "notify_failed", "send_failed", "no_row"}
    /\ lastEvent.post \in DOMAIN posts
    /\ posts[lastEvent.post].scheduled_time < posts[Head(batch)].scheduled_time

\* C26: when the call for one post of a running sweep fails (the SELECT or
\* the send raises, the mark fails, or no row is found), the sweep goes on
\* with the remaining posts of its list, and the interval job and the one-shot
\* jobs stay armed.
C26_FailureSkipsOnePost ==
    [][(/\ running'
        /\ pc[Sweep] # "idle"
        /\ \/ sweepFailed' # sweepFailed
           \/ lastEvent'.ev = "no_row" /\ lastEvent'.by = Sweep)
          => /\ batch' \in {batch, Tail(batch)}
             /\ pc'[Sweep] = (IF batch' = <<>> THEN "idle"
                              ELSE IF batch' = batch THEN "notify" ELSE "load")
             /\ sweepArmed'
             /\ jobs' = jobs]_vars

\* C26 witness: in one sweep the delivery of a post failed and the post
\* after it has been sent and marked published.
C26_Witness ==
    /\ lastEvent.by = Sweep
    /\ lastEvent.ev = "notified"
    /\ sweepArmed
    /\ \E p \in sweepFailed :
          /\ p # lastEvent.post
          /\ sent[p] = 0
          /\ ~posts[p].is_published
    /\ posts[lastEvent.post].is_published
    /\ sent[lastEvent.post] = 1

\* C27: there is at most one armed one-shot job per post id, and every armed
\* one-shot job is for a post that is in the store and has that post's
\* scheduled_time as its run date.
C27_OneTimerPerPost ==
    /\ \A j, k \in jobStore : j.id = k.id => j = k
    /\ \A j \in jobStore :
          /\ j.id \in DOMAIN posts
          /\ j.run_date = posts[j.id].scheduled_time
    /\ jobs = JobIds(jobStore)

\* C27 witness: time has passed and two posts have their jobs armed, each at
\* its own due time.
C27_Witness ==
    /\ running
    /\ Cardinality(jobStore) = 2
    /\ \E j, k \in jobStore : j.run_date < k.run_date
    /\ now > 0

\* C28: while the process is running, every unpublished post whose due time
\* is still in the future has an armed one-shot job.
C28_FuturePostsArmed ==
    running
    => \A p \in DOMAIN posts :
          (~posts[p].is_published /\ posts[p].scheduled_time > now) => p \in jobs

\* C29, step part.  When the one-shot job of a post runs, it alone leaves
\* the job store and the interval job stays; when the send of that job's call
\* fails, the call ends with no job armed for the post, the other jobs and
\* the interval job as they were; and a post whose due time has come and
\* whose job is gone never has a job armed again.
C29_Step ==
    \A p \in DOMAIN posts :
        /\ (running' /\ p \in jobs /\ p \notin jobs')
              => /\ jobs' = jobs \ {p}
                 /\ sweepArmed' = sweepArmed
        /\ (lastEvent'.ev = "send_failed" /\ lastEvent'.by = p)
              => /\ p \notin jobs'
                 /\ pc'[p] = "idle"
                 /\ jobs' = jobs
                 /\ sweepArmed'
        /\ (p \notin jobs /\ posts[p].scheduled_time <= now) => p \notin jobs'

\* C29: the one-shot job of a post runs at most once; after it has run and
\* the delivery failed no one-shot job is armed for the post and none is
\* armed later, and the other jobs and the interval job stay armed.
C29_TimerFiresOnce == [][C29_Step]_vars

\* C29 witness: the send of a post's one-shot job has just failed; the job
\* is gone, another post's job and the interval job are armed.
C29_Witness ==
    /\ lastEvent.ev = "send_failed"
    /\ lastEvent.by = lastEvent.post
    /\ lastEvent.post \notin jobs
    /\ pc[lastEvent.post] = "idle"
    /\ jobs # {}
    /\ sweepArmed

\* C30: a creation request that is turned away (unparsable time, time too
\* soon or too far ahead, incomplete conversation data) or whose INSERT
\* fails leaves the post store and the job store as they were.
C30_RejectedCreatesNothing ==
    [][(/\ update'.turn # update.turn
        /\ update'.handler = "process_post_time"
        /\ update'.outcome \in {"bad_format", "too_soon", "too_far", "bad_data",
                                 "insert_failed"})
          => posts' = posts /\ jobs' = jobs]_vars

\* C30 witness: with one post stored and its job armed, the INSERT of a
\* second request has just failed.
C30_Witness ==
    /\ update.handler = "process_post_time"
    /\ update.outcome = "insert_failed"
    /\ Len(posts) = 1
    /\ jobs = {1}
    /\ fsm = FsmClear

\* C31: the only change ever made to an existing post is the setting of
\* is_published and published_at by the delivery of that same post: every
\* step keeps every post in the store with its owner, channel and due time,
\* and a post's row differs after a step only when that step is the mark of
\* a delivery of this post, which leaves every other post as it was.
C31_Step ==
    /\ Len(posts') >= Len(posts)
    /\ \A p \in DOMAIN posts :
          /\ posts'[p].user_id = posts[p].user_id
          /\ posts'[p].channel_id = posts[p].channel_id
          /\ posts'[p].scheduled_time = posts[p].scheduled_time
          /\ posts'[p] # posts[p] =>
                /\ \E k \in Invokers :
                      pc[k] = "mark" /\ CurPost(k) = p /\ pc'[k] = "notify"
                /\ posts'[p].is_published
                /\ posts'[p].published_at = Some(now)
                /\ \A q \in DOMAIN posts : q # p => posts'[q] = posts[q]

C31_OnlyDeliveryChangesPost == [][C31_Step]_vars

\* A delivery has just marked its post while another post of the same
\* channel is in the store, unpublished.
C31_Witness ==
    \E k \in Invokers :
        /\ pc[k] = "notify"
        /\ posts[CurPost(k)].is_published
        /\ posts[CurPost(k)].published_at = Some(now)
        /\ \E q \in DOMAIN posts :
              /\ q # CurPost(k)
              /\ posts[q].channel_id = posts[CurPost(k)].channel_id
              /\ ~posts[q].is_published

\* C32: every post that is created targets a channel that is, at the moment
\* of creation, linked to the post's owner and active: a step that adds a
\* post to the store adds it for a channel whose row is active.
C32_Step ==
    Len(posts') > Len(posts) =>
        chan[posts'[Len(posts')].channel_id] = "active"

C32_CreatedOnActiveChannel == [][C32_Step]_vars

\* C33: the entered HH:MM is combined with today's UTC date, so the due
\* time a request is judged by lies on the day of the request, the verdict
\* is never "too far ahead", and every post the conversation creates has
\* its scheduled_time on the UTC calendar date on which it is created.
C33_State ==
    probe.verdict # "none" =>
        /\ Day(probe.due) = Day(probe.at)
        /\ probe.verdict \in {"too_soon", "ok"}

C33_Step ==
    Len(posts') > Len(posts) =>
        Day(posts'[Len(posts')].scheduled_time) = Day(now)

C33_DueOnDayOfCreation == []C33_State /\ [][C33_Step]_vars

\* In the last minutes of a day a post has been created for 23:59 of that
\* day, and a time of day that has already passed has been turned away as
\* too soon.
C33_Witness ==
    /\ now % DayMinutes > MaxTime
    /\ \E p \in DOMAIN posts : posts[p].scheduled_time = Combine(now, DayMinutes - 1)
    /\ probe.verdict = "too_soon"
    /\ probe.at = now
    /\ probe.due < now

\* C34: one scheduling conversation creates exactly one post and arms
\* exactly one timer, also when two time messages are handled interleaved:
\* of the handlers of one conversation that are in flight, at most one has
\* created a post.
C34_OnePostPerConversation ==
    Cardinality({h \in HandlerIds : timing[h].post # 0}) <= 1

\* C35: for every broadcast, sent_count is written once, after the fan-out
\* has attempted every targeted user; the written value is the number of
\* users the message was successfully sent to and does not exceed
\* total_count.
C35_SentCountIsDelivered ==
    (fanout.pc = "done" /\ fanout.writes > 0) =>
        /\ fanout.writes = 1
        /\ fanout.attempted = fanout.rows[fanout.id].total_count
        /\ fanout.rows[fanout.id].sent_count <= fanout.rows[fanout.id].total_count
        /\ fanout.rows[fanout.id].sent_count = fanout.delivered

\* C36: a broadcast record is created, broadcast messages are sent, and a
\* user's subscription flag and limits are changed only by a step that
\* serves a message of the account whose id equals ADMIN_ID; a step that
\* serves an update of any other account leaves the broadcasts, the
\* fan-out, every account's conversation state and every existing user row
\* as they were.
C36_Step ==
    LET served == actor'.turn # actor.turn
        tier(r) == <<r.subscribed, r.subscription_until, r.channels_limit,
                     r.posts_per_day_limit>>
        granted == \/ \E i \in DOMAIN users : tier(users'[i]) # tier(users[i])
                   \/ \E i \in DOMAIN users' : i \notin DOMAIN users /\ users'[i].subscribed
        broadcast == \/ broadcasts' # broadcasts
                     \/ fanout'.rows # fanout.rows
                     \/ fanout'.attempted # fanout.attempted
                     \/ fanout'.delivered # fanout.delivered
    IN  /\ (granted \/ broadcast) => (served /\ actor'.id = ADMIN_ID)
        /\ (served /\ actor'.id # ADMIN_ID) =>
              /\ UNCHANGED <<broadcasts, fanout, adminFsm>>
              /\ \A i \in DOMAIN users : users'[i] = users[i]

C36_OnlyAdministrator == [][C36_Step]_vars

\* The administrator has granted a subscription and finished a broadcast
\* that reached a user, and the latest update served came from the other
\* account, which is in no conversation.
C36_Witness ==
    /\ actor.id \in TelegramIds \ {ADMIN_ID}
    /\ adminFsm[actor.id] = "none"
    /\ \E i \in DOMAIN users : users[i].subscribed
    /\ fanout.pc = "done"
    /\ fanout.delivered > 0
    /\ broadcasts > 0

\* C37: after get_or_create_user is called for an existing user with a
\* non-empty handle that differs from the stored one, the stored handle
\* equals the new handle and the returned record carries the new handle, on
\* both storage backends.
C37_HandleResynced ==
    LET r == store.returned IN
    (r.tg \in TelegramIds /\ r.before # "absent" /\ r.passed # "" /\ r.passed # r.before)
        => /\ store.username[r.tg] = r.passed
           /\ r.username = r.passed

\* C38: adding a channel that is already linked to the same user with the
\* same title leaves the table channels as the first add left it: adding
\* the same channel twice yields the same store as adding it once.
C38_AddTwiceIsAddOnce ==
    store.again => store.channels = store.before

====
